---- MODULE Spec2Model ----
(***************************************************************************)
(* A model of ScraperBit: the resilient fetcher of anti_blocking.py, the   *)
(* site adapters of scrapers/*.py and the consolidation functions of       *)
(* data_processing.py.                                                     *)
(*                                                                         *)
(* Python values are encoded as follows.  An optional value is a sequence  *)
(* of length at most one: None is <<>> and a present value v is <<v>>.     *)
(* A dict is a function whose DOMAIN is the set of its keys.  Confidences  *)
(* are hundredths (0.85 is 85) and prices are whole numbers.               *)
(***************************************************************************)
EXTENDS Integers, Sequences, FiniteSets, TLC

VARIABLES
    use_rotating_agents,  \* AntiBlockingManager.use_rotating_agents
    use_random_delays,    \* AntiBlockingManager.use_random_delays
    site_configs,         \* AntiBlockingManager.site_configs
    default_config,       \* AntiBlockingManager.default_config
    pc,                   \* position of the running fetch
    url,                  \* argument url of the running fetch
    retries,              \* argument retries of the running fetch (optional)
    config,               \* local config
    headers,              \* local headers
    retries_count,        \* local retries_count
    attempt,              \* local attempt
    response,             \* local response (optional): the last response received
    outcome,              \* the returned tuple (optional until the fetch returns)
    raised,               \* the exception that left the fetch (optional)
    log,                  \* the requests issued and the sleeps slept, in order
    html_content,         \* what fetch_content_with_ab hands to its caller
    source,               \* the source whose adapter runs (scraper_mapping key)
    page,                 \* the parsed page handed to the adapter
    stock_tips,           \* the list the adapter returned (optional until it returns)
    tips_in,              \* the argument of the consolidation functions
    deduplicated_tips,    \* what deduplicate_stock_tips returned (optional)
    sorted_tips,          \* what consolidate_findings returned (optional)
    deduplicated_again,   \* deduplicate_stock_tips of its own result (optional)
    sorted_again,         \* consolidate_findings of its own result (optional)
    run_pc,               \* position of run_scrapers
    sources,              \* argument sources of run_scrapers
    source_index,         \* the element of sources the loop of run_scrapers is at
    results,              \* local results of run_scrapers: source name -> list
    combined,             \* the deduplicated list of all sources (optional)
    pool_pc,              \* position of scrape_multi_threaded
    urls_to_scrape,       \* argument urls_to_scrape of scrape_multi_threaded
    max_workers,          \* argument max_workers of scrape_multi_threaded
    futures,              \* the submitted tasks, in the order of future_to_url
    completed,            \* the tasks that have finished, in the order they finished
    awaited,              \* the number of futures whose result() has been taken
    all_stock_tips,       \* local all_stock_tips of scrape_multi_threaded
    scoring_path,         \* the scoring code that runs
    found,                \* what the extraction found in the fragment being scored
    scored,               \* the confidence the scoring assigned (optional)
    view_input,           \* the list of leads the views are made of
    view_args,            \* the arguments the filters were called with
    quality_view,         \* what filter_quality_tips returned (optional)
    growth_view,          \* what filter_target_growth returned (optional)
    raw_text,             \* argument text of extract_stock_details
    details               \* the result of extract_stock_details (optional)

fetchVars == <<use_rotating_agents, use_random_delays, site_configs, default_config,
               pc, url, retries, config, headers, retries_count, attempt,
               response, outcome, raised, log, html_content>>

adapterVars == <<source, page, stock_tips>>

consVars == <<tips_in, deduplicated_tips, sorted_tips, deduplicated_again, sorted_again>>

runVars == <<run_pc, sources, source_index, results, combined>>

poolVars == <<pool_pc, urls_to_scrape, max_workers, futures, completed, awaited, all_stock_tips>>

scoreVars == <<scoring_path, found, scored>>

viewVars == <<view_input, view_args, quality_view, growth_view>>

extractVars == <<raw_text, details>>

vars == <<fetchVars, adapterVars, consVars, runVars, poolVars, scoreVars, viewVars,
          extractVars>>

----------------------------------------------------------------------------
(* Optional values *)

None == <<>>
Some(v) == <<v>>
IsNone(o) == o = <<>>
Val(o) == o[1]
\* Python truthiness of an optional number: None and 0 are falsy
TruthyNum(o) == o # <<>> /\ o[1] # 0
\* Python truthiness of an optional string: None and "" are falsy
TruthyStr(o) == o # <<>> /\ o[1] # ""

----------------------------------------------------------------------------
(* Bounds *)

MaxRetries == 3

\* The largest number of fragments of a page with several fragments
MaxFrags == 2

\* The largest number of leads handed to the consolidation
MaxTips == 3

----------------------------------------------------------------------------
(* AntiBlockingManager: configuration *)

user_agents == <<"UA-chrome-win", "UA-safari-mac">>

\* The domains of site_configs, in dict order
SiteDomains == <<"economictimes.indiatimes.com", "moneycontrol.com", "livemint.com", "5paisa.com">>

\* A URL is modelled by the set of configured domains that occur in it as a
\* substring ('domain in url').
URLs == { {}, {"economictimes.indiatimes.com"}, {"moneycontrol.com"}, {"livemint.com"},
          {"5paisa.com"}, {"economictimes.indiatimes.com", "moneycontrol.com"} }

DefaultRetries == 2
MoneycontrolRetries == 5

InitSiteConfigs ==
    [d \in {SiteDomains[i] : i \in 1..Len(SiteDomains)} |->
        CASE d = "economictimes.indiatimes.com" ->
                 [k \in {"headers", "min_delay", "max_delay"} |->
                     CASE k = "headers" -> [h \in {"Accept-Language", "Referer", "DNT"} |->
                                              CASE h = "Accept-Language" -> "en-US,en;q=0.5"
                                                [] h = "Referer" -> "https://economictimes.indiatimes.com/"
                                                [] h = "DNT" -> "1"]
                       [] k = "min_delay" -> 2
                       [] k = "max_delay" -> 5]
          [] d = "moneycontrol.com" ->
                 [k \in {"headers", "min_delay", "max_delay", "retries", "special_handling"} |->
                     CASE k = "headers" -> [h \in {"Accept-Language", "Referer", "DNT", "Cache-Control"} |->
                                              CASE h = "Accept-Language" -> "en-US,en;q=0.9"
                                                [] h = "Referer" -> "https://www.google.com/"
                                                [] h = "DNT" -> "1"
                                                [] h = "Cache-Control" -> "max-age=0"]
                       [] k = "min_delay" -> 4
                       [] k = "max_delay" -> 7
                       [] k = "retries" -> MoneycontrolRetries
                       [] k = "special_handling" -> TRUE]
          [] d = "livemint.com" ->
                 [k \in {"headers", "min_delay", "max_delay"} |->
                     CASE k = "headers" -> [h \in {"Accept-Language", "Referer", "DNT"} |->
                                              CASE h = "Accept-Language" -> "en-US,en;q=0.5"
                                                [] h = "Referer" -> "https://www.livemint.com/"
                                                [] h = "DNT" -> "1"]
                       [] k = "min_delay" -> 2
                       [] k = "max_delay" -> 4]
          [] d = "5paisa.com" ->
                 [k \in {"headers", "min_delay", "max_delay"} |->
                     CASE k = "headers" -> [h \in {"Accept-Language", "Referer", "DNT"} |->
                                              CASE h = "Accept-Language" -> "en-US,en;q=0.5"
                                                [] h = "Referer" -> "https://www.5paisa.com/"
                                                [] h = "DNT" -> "1"]
                       [] k = "min_delay" -> 3
                       [] k = "max_delay" -> 5]]

InitDefaultConfig ==
    [k \in {"headers", "min_delay", "max_delay", "retries", "special_handling"} |->
        CASE k = "headers" -> [h \in {"Accept-Language", "DNT"} |->
                                 CASE h = "Accept-Language" -> "en-US,en;q=0.5"
                                   [] h = "DNT" -> "1"]
          [] k = "min_delay" -> 1
          [] k = "max_delay" -> 3
          [] k = "retries" -> DefaultRetries
          [] k = "special_handling" -> FALSE]

\* dict.update: the keys of b override those of a
DictUpdate(a, b) ==
    [k \in (DOMAIN a) \cup (DOMAIN b) |-> IF k \in DOMAIN b THEN b[k] ELSE a[k]]

\* dict.get(key, default)
DictGet(d, k, dflt) == IF k \in DOMAIN d THEN d[k] ELSE dflt

\* d[k] = v
DictSet(d, k, v) == [x \in (DOMAIN d) \cup {k} |-> IF x = k THEN v ELSE d[x]]

\* The first domain of site_configs, in dict order, that occurs in the URL
RECURSIVE FirstMatch(_, _)
FirstMatch(u, i) ==
    IF i > Len(SiteDomains) THEN None
    ELSE IF SiteDomains[i] \in u THEN Some(SiteDomains[i])
    ELSE FirstMatch(u, i + 1)

_get_site_config(u) ==
    LET m == FirstMatch(u, 1)
    IN IF IsNone(m) THEN default_config
       ELSE DictUpdate(default_config, site_configs[Val(m)])

----------------------------------------------------------------------------
(* What the server (and the network) can answer to one GET *)

SmallPage == 500

\* A response body: its length and the one remarkable word it carries
BodyLengths == {0, 300, 499, 500}
BodyWords == {"", "captcha", "CAPTCHA", "Robot", "stock"}
Bodies == { b \in [len : BodyLengths, word : BodyWords] : b.len = 0 => b.word = "" }

\* str.lower()
Lower(w) ==
    CASE w = "CAPTCHA" -> "captcha"
      [] w = "Robot" -> "robot"
      [] OTHER -> w

\* 'needle' in text, for a body that carries one remarkable word
Contains(b, needle) == b.word = needle

Statuses == {200, 403, 404, 429, 500}
PlainBody == [len |-> 300, word |-> "stock"]

\* requests raises Timeout and ConnectionError for network failures; both are
\* subclasses of RequestException.  "Other" is any exception that is not.
RequestExceptionKinds == {"Timeout", "ConnectionError"}
IsRequestException(kind) == kind \in RequestExceptionKinds

\* session.get() for the primary request: a response, or a network exception
PrimaryAnswers ==
    { [raises |-> None, status |-> 200, body |-> b] : b \in Bodies }
    \cup { [raises |-> None, status |-> s, body |-> PlainBody] : s \in Statuses \ {200} }
    \cup { [raises |-> Some(k), status |-> 0, body |-> PlainBody] : k \in RequestExceptionKinds }

\* session.get() for the warm-up request: its response is ignored, and it, or
\* anything else in the try block, may raise any exception
WarmupAnswers == {None} \cup { Some(k) : k \in RequestExceptionKinds \cup {"Other"} }

\* 2 ** n
RECURSIVE Pow2(_)
Pow2(n) == IF n <= 0 THEN 1 ELSE 2 * Pow2(n - 1)

Event(ev, n) == [ev |-> ev, n |-> n]

\* The text of a returned tuple's second component
BodyText(b) == [kind |-> "body", len |-> b.len, word |-> b.word]
HttpErrorText(s) == [kind |-> "HTTP Error", status |-> s]
RequestErrorText(k) == [kind |-> "Request Error", error |-> k]
MaxRetriesText == [kind |-> "Max retries exceeded"]

Outcome(success, content, status_code) ==
    [success |-> success, content |-> content, status_code |-> status_code]

----------------------------------------------------------------------------
(* AntiBlockingManager.fetch_with_anti_blocking *)

\* AntiBlockingManager.__init__ and the locals of a fetch that has not started
InitManager ==
    /\ site_configs = InitSiteConfigs
    /\ default_config = InitDefaultConfig
    /\ pc = "idle"
    /\ url = {}
    /\ retries = None
    /\ config = InitDefaultConfig
    /\ headers = InitDefaultConfig["headers"]
    /\ retries_count = 0
    /\ attempt = 0
    /\ response = None
    /\ outcome = None
    /\ raised = None
    /\ log = <<>>
    /\ html_content = None

\* No adapter is running: an empty page, nothing returned
IdleAdapter ==
    /\ source = "axis_direct"
    /\ page = [cards |-> <<>>, tables |-> <<>>]
    /\ stock_tips = None

\* No consolidation is running
IdleCons ==
    /\ tips_in = <<>>
    /\ deduplicated_tips = None
    /\ sorted_tips = None
    /\ deduplicated_again = None
    /\ sorted_again = None

\* run_scrapers has not been called
IdleRun ==
    /\ run_pc = "idle"
    /\ sources = <<>>
    /\ source_index = 1
    /\ results = <<>>
    /\ combined = None

\* scrape_multi_threaded has not been called
IdlePool ==
    /\ pool_pc = "idle"
    /\ urls_to_scrape = <<>>
    /\ max_workers = 5
    /\ futures = <<>>
    /\ completed = <<>>
    /\ awaited = 0
    /\ all_stock_tips = <<>>

\* No fragment is being scored
IdleScore ==
    /\ scoring_path = "axis_direct"
    /\ found = <<>>
    /\ scored = None

\* No view has been asked for
IdleViews ==
    /\ view_input = <<>>
    /\ view_args = <<>>
    /\ quality_view = None
    /\ growth_view = None

\* No text is being read
IdleExtract ==
    /\ raw_text = <<>>
    /\ details = None

\* ab_manager = AntiBlockingManager(use_rotating_agents=True, use_random_delays=True)
\* in base_scraper.py; the two switches are arguments of the constructor
Init ==
    /\ use_rotating_agents \in BOOLEAN
    /\ use_random_delays \in BOOLEAN
    /\ InitManager
    /\ IdleAdapter
    /\ IdleCons
    /\ IdleRun
    /\ IdlePool
    /\ IdleScore
    /\ IdleViews
    /\ IdleExtract

\* A variant: headers is the profile's own dict, not a copy of it
HeadersAreCopied_Shared == FALSE

\* Line 195: headers = config['headers'].copy()
HeadersAreCopied == TRUE

\* The profile whose dict config['headers'] is in a fetch of u: the matched
\* profile when it has headers of its own, else (None) default_config;
\* merged_config is a shallow copy (lines 131-132)
HeadersOwner(u) ==
    LET m == FirstMatch(u, 1)
    IN IF m # None /\ "headers" \in DOMAIN site_configs[Val(m)] THEN m ELSE None

\* site_configs and default_config once h is what the headers of a fetch of
\* u hold: a write to a copy leaves them as they are
SiteConfigsAfter(u, h) ==
    IF HeadersAreCopied \/ HeadersOwner(u) = None THEN site_configs
    ELSE [site_configs EXCEPT ![Val(HeadersOwner(u))] = DictSet(@, "headers", h)]

DefaultConfigAfter(u, h) ==
    IF HeadersAreCopied \/ HeadersOwner(u) # None THEN default_config
    ELSE DictSet(default_config, "headers", h)

\* Lines 194-205: the profile, the headers, the retry budget, the user agent
FetchStart ==
    /\ pc = "idle"
    /\ \E u \in URLs, r \in {None} \cup { Some(n) : n \in 0..MaxRetries },
          ua \in 1..Len(user_agents) :
          LET cfg == _get_site_config(u)
              h0 == cfg["headers"]
              h1 == IF use_rotating_agents
                    THEN DictSet(h0, "User-Agent", user_agents[ua]) ELSE h0
          IN /\ url' = u
             /\ retries' = r
             /\ config' = cfg
             /\ headers' = h1
             /\ site_configs' = SiteConfigsAfter(u, h1)
             /\ default_config' = DefaultConfigAfter(u, h1)
             /\ retries_count' = IF r # None THEN Val(r)
                                 ELSE DictGet(cfg, "retries", default_config["retries"])
             /\ pc' = IF DictGet(cfg, "special_handling", FALSE) THEN "special" ELSE "delay"
    /\ attempt' = 0
    /\ response' = None
    /\ outcome' = None
    /\ raised' = None
    /\ log' = <<>>
    /\ html_content' = None
    /\ UNCHANGED <<adapterVars, consVars, runVars, poolVars, scoreVars, viewVars, extractVars>>
    /\ UNCHANGED <<use_rotating_agents, use_random_delays>>

\* A variant: an exception of the warm-up leaves the fetch
_handle_special_site_Fatal ==
    /\ pc = "special"
    /\ IF "moneycontrol.com" \in url
       THEN \E a \in WarmupAnswers :
              LET h1 == DictSet(headers, "Referer",
                                "https://www.google.com/search?q=moneycontrol+india+stock+news")
                  h2 == IF "User-Agent" \notin DOMAIN h1
                        THEN DictSet(h1, "User-Agent", user_agents[1]) ELSE h1
              IN IF IsNone(a)
                 THEN /\ headers' = DictSet(h2, "Referer", "https://www.moneycontrol.com/")
                      /\ log' = log \o <<Event("warmup_get", 0), Event("warmup_sleep", 1)>>
                      /\ pc' = "delay"
                      /\ raised' = raised
                 ELSE /\ headers' = h2
                      /\ log' = Append(log, Event("warmup_failed", 0))
                      /\ pc' = "raised"
                      /\ raised' = a
       ELSE /\ pc' = "delay"
            /\ UNCHANGED <<headers, log, raised>>
    /\ site_configs' = SiteConfigsAfter(url, headers')
    /\ default_config' = DefaultConfigAfter(url, headers')
    /\ UNCHANGED <<adapterVars, consVars, runVars, poolVars, scoreVars, viewVars, extractVars>>
    /\ UNCHANGED <<use_rotating_agents, use_random_delays, url, retries, config,
                   retries_count, attempt, response, outcome, html_content>>

\* Lines 143-177: the warm-up visit of the homepage
_handle_special_site ==
    /\ pc = "special"
    /\ IF "moneycontrol.com" \in url
       THEN \E a \in WarmupAnswers :
              LET h1 == DictSet(headers, "Referer",
                                "https://www.google.com/search?q=moneycontrol+india+stock+news")
                  h2 == IF "User-Agent" \notin DOMAIN h1
                        THEN DictSet(h1, "User-Agent", user_agents[1]) ELSE h1
              IN IF IsNone(a)
                 THEN /\ headers' = DictSet(h2, "Referer", "https://www.moneycontrol.com/")
                      /\ log' = log \o <<Event("warmup_get", 0), Event("warmup_sleep", 1)>>
                 ELSE \* except Exception: logged, the headers keep what was written
                      /\ headers' = h2
                      /\ log' = Append(log, Event("warmup_failed", 0))
       ELSE UNCHANGED <<headers, log>>
    /\ site_configs' = SiteConfigsAfter(url, headers')
    /\ default_config' = DefaultConfigAfter(url, headers')
    /\ pc' = "delay"
    /\ UNCHANGED <<adapterVars, consVars, runVars, poolVars, scoreVars, viewVars, extractVars>>
    /\ UNCHANGED <<use_rotating_agents, use_random_delays, url, retries, config,
                   retries_count, attempt, response, outcome, raised, html_content>>

\* Lines 136-141 and 207-209: the inter-request delay, then attempt = 0
_apply_delay ==
    /\ pc = "delay"
    /\ log' = IF use_random_delays THEN Append(log, Event("delay", 1)) ELSE log
    /\ attempt' = 0
    /\ pc' = "loop"
    /\ UNCHANGED <<adapterVars, consVars, runVars, poolVars, scoreVars, viewVars, extractVars>>
    /\ UNCHANGED <<use_rotating_agents, use_random_delays, site_configs, default_config,
                   url, retries, config, headers, retries_count, response, outcome,
                   raised, html_content>>

\* A variant: the keywords are looked for without lower-casing the text
IsSoftBlock_CaseSensitive(b) ==
    b.len < SmallPage /\ (Contains(b, "captcha") \/ Contains(b, "robot"))

\* Line 228: a small page that carries CAPTCHA or robot text
IsSoftBlock(b) ==
    b.len < SmallPage /\ (Contains([b EXCEPT !.word = Lower(b.word)], "captcha")
                          \/ Contains([b EXCEPT !.word = Lower(b.word)], "robot"))

\* A variant: a server error is retried like a block
IsRetriedStatus_ServerError(s) == s = 403 \/ s = 429 \/ s = 500

\* Line 236: the statuses that are retried
IsRetriedStatus(s) == s = 403 \/ s = 429

\* A variant: only timeouts are caught
IsCaught_TimeoutOnly(kind) == kind = "Timeout"

\* Line 245: the exceptions the attempt loop catches
IsCaught(kind) == IsRequestException(kind)

\* A variant: the last attempt is taken to be one later
IsLastAttempt_OffByOne(a, n) == a = n

\* Line 247: the last attempt
IsLastAttempt(a, n) == a = n - 1

\* Lines 250-254: the general backoff between attempts
GeneralBackoff(a) == <<Event("backoff_sleep", Pow2(a + 1))>>

\* A variant: the final failure carries no error text
ExhaustedOutcome_NoError == Outcome(FALSE, None, None)

\* Line 256
ExhaustedOutcome == Outcome(FALSE, Some(MaxRetriesText), None)

\* Lines 210-254: one iteration of the attempt loop
Attempt ==
    /\ pc = "loop"
    /\ attempt < retries_count
    /\ \E a \in PrimaryAnswers :
         IF a.raises # None
         THEN /\ response' = response
              /\ IF ~IsCaught(Val(a.raises))
                 THEN /\ raised' = a.raises
                      /\ pc' = "raised"
                      /\ log' = Append(log, Event("get_raised", 0))
                      /\ UNCHANGED <<attempt, outcome>>
                 ELSE IF IsLastAttempt(attempt, retries_count)
                 THEN /\ outcome' = Some(Outcome(FALSE, Some(RequestErrorText(Val(a.raises))), None))
                      /\ pc' = "done"
                      /\ log' = Append(log, Event("get_raised", 0))
                      /\ UNCHANGED <<attempt, raised>>
                 ELSE /\ attempt' = attempt + 1
                      /\ log' = Append(log, Event("get_raised", 0)) \o GeneralBackoff(attempt)
                      /\ pc' = "loop"
                      /\ UNCHANGED <<outcome, raised>>
         ELSE /\ response' = Some([status |-> a.status, body |-> a.body])
              /\ raised' = raised
              /\ IF a.status = 200
                 THEN IF IsSoftBlock(a.body)
                      THEN /\ log' = log \o <<Event("get", a.status),
                                              Event("captcha_sleep", Pow2(attempt))>>
                           /\ attempt' = attempt + 1
                           /\ pc' = "loop"
                           /\ UNCHANGED outcome
                      ELSE /\ outcome' = Some(Outcome(TRUE, Some(BodyText(a.body)), Some(a.status)))
                           /\ pc' = "done"
                           /\ log' = Append(log, Event("get", a.status))
                           /\ UNCHANGED attempt
                 ELSE IF IsRetriedStatus(a.status)
                 THEN /\ log' = log \o <<Event("get", a.status),
                                         Event("block_sleep", Pow2(attempt))>>
                                    \o GeneralBackoff(attempt)
                      /\ attempt' = attempt + 1
                      /\ pc' = "loop"
                      /\ UNCHANGED outcome
                 ELSE /\ outcome' = Some(Outcome(FALSE, Some(HttpErrorText(a.status)), Some(a.status)))
                      /\ pc' = "done"
                      /\ log' = Append(log, Event("get", a.status))
                      /\ UNCHANGED attempt
    /\ UNCHANGED <<adapterVars, consVars, runVars, poolVars, scoreVars, viewVars, extractVars>>
    /\ UNCHANGED <<use_rotating_agents, use_random_delays, site_configs, default_config,
                   url, retries, config, headers, retries_count, html_content>>

\* Lines 210 and 256: the loop condition fails
Exhausted ==
    /\ pc = "loop"
    /\ ~(attempt < retries_count)
    /\ outcome' = Some(ExhaustedOutcome)
    /\ pc' = "done"
    /\ UNCHANGED <<adapterVars, consVars, runVars, poolVars, scoreVars, viewVars, extractVars>>
    /\ UNCHANGED <<use_rotating_agents, use_random_delays, site_configs, default_config,
                   url, retries, config, headers, retries_count, attempt, response,
                   raised, log, html_content>>

\* base_scraper.fetch_content_with_ab, lines 75-80: the caller unpacks the tuple
fetch_content_with_ab ==
    /\ pc = "done"
    /\ html_content' = IF Val(outcome).success THEN Val(outcome).content ELSE None
    /\ pc' = "returned"
    /\ UNCHANGED <<adapterVars, consVars, runVars, poolVars, scoreVars, viewVars, extractVars>>
    /\ UNCHANGED <<use_rotating_agents, use_random_delays, site_configs, default_config,
                   url, retries, config, headers, retries_count, attempt, response,
                   outcome, raised, log>>

\* The next fetch of the run, on the same manager: the locals of the finished
\* call are gone
NextFetch ==
    /\ pc = "returned"
    /\ pc' = "idle"
    /\ url' = {}
    /\ retries' = None
    /\ config' = default_config
    /\ headers' = default_config["headers"]
    /\ retries_count' = 0
    /\ attempt' = 0
    /\ response' = None
    /\ outcome' = None
    /\ log' = <<>>
    /\ html_content' = None
    /\ UNCHANGED <<adapterVars, consVars, runVars, poolVars, scoreVars, viewVars, extractVars>>
    /\ UNCHANGED <<use_rotating_agents, use_random_delays, site_configs, default_config,
                   raised>>

Next ==
    \/ FetchStart
    \/ _handle_special_site
    \/ _apply_delay
    \/ Attempt
    \/ Exhausted
    \/ fetch_content_with_ab
    \/ NextFetch

Spec == Init /\ [][Next]_vars

----------------------------------------------------------------------------
(* base_scraper.py: the shared helpers of the adapters                     *)
(*                                                                         *)
(* A price string is a sequence of characters.  Prices are whole numbers:  *)
(* the price strings of the model carry no fractional digits.  A growth    *)
(* percentage is kept in hundredths of a percent (12.5 is 1250), the two   *)
(* decimals round() keeps.  A confidence is kept in hundredths.            *)

DigitChars == {"0", "1", "2", "3", "4", "5", "6", "7", "8", "9"}

DigitValue(c) ==
    CASE c = "0" -> 0 [] c = "1" -> 1 [] c = "2" -> 2 [] c = "3" -> 3 [] c = "4" -> 4
      [] c = "5" -> 5 [] c = "6" -> 6 [] c = "7" -> 7 [] c = "8" -> 8 [] c = "9" -> 9

\* re.sub(r'[^\d.]', '', s)
RECURSIVE KeepNumeric(_)
KeepNumeric(s) ==
    IF s = <<>> THEN <<>>
    ELSE IF Head(s) \in DigitChars \cup {"."} THEN <<Head(s)>> \o KeepNumeric(Tail(s))
    ELSE KeepNumeric(Tail(s))

\* The characters of s before the first '.'
RECURSIVE BeforeDot(_)
BeforeDot(s) ==
    IF s = <<>> \/ Head(s) = "." THEN <<>> ELSE <<Head(s)>> \o BeforeDot(Tail(s))

RECURSIVE DigitsToNat(_, _)
DigitsToNat(s, acc) ==
    IF s = <<>> THEN acc ELSE DigitsToNat(Tail(s), 10 * acc + DigitValue(Head(s)))

\* str.strip().upper() of the price strings of the model
StripUpper(s) ==
    LET up(c) == CASE c = "n" -> "N" [] c = "a" -> "A" [] OTHER -> c
        body == SelectSeq(s, LAMBDA c : c # " ")
    IN [i \in 1..Len(body) |-> up(body[i])]

\* Lines 45-57: None for None, 'NA', 'N/A', '-' and for what float() refuses
\* (no digit at all, or more than one '.'); else the number
clean_price(price_str) ==
    IF price_str = None THEN None
    ELSE IF StripUpper(Val(price_str)) \in {<<"N", "A">>, <<"N", "/", "A">>, <<"-">>} THEN None
    ELSE LET cleaned == KeepNumeric(Val(price_str))
             dots == Cardinality({ i \in 1..Len(cleaned) : cleaned[i] = "." })
             digits == Cardinality({ i \in 1..Len(cleaned) : cleaned[i] \in DigitChars })
         IN IF cleaned = <<>> THEN None
            ELSE IF dots > 1 \/ digits = 0 THEN None
            ELSE Some(DigitsToNat(BeforeDot(cleaned), 0))

\* round(x, 2) of the quotient num / den (den > 0), in hundredths: round half
\* to even
RoundDiv(num, den) ==
    LET q == num \div den
        r == num % den
    IN IF 2 * r < den THEN q
       ELSE IF 2 * r > den THEN q + 1
       ELSE IF q % 2 = 0 THEN q ELSE q + 1

\* Lines 59-63, followed by the round(growth_percent, 2) of every caller
calculate_growth_percent(entry_price, target_price) ==
    IF ~TruthyNum(entry_price) \/ ~TruthyNum(target_price) \/ Val(entry_price) <= 0 THEN None
    ELSE Some(RoundDiv((Val(target_price) - Val(entry_price)) * 10000, Val(entry_price)))

MinGrowth == 700
MaxGrowth == 1500

\* Lines 65-69
is_target_growth_range(growth_percent) ==
    IF growth_percent = None THEN FALSE
    ELSE MinGrowth <= Val(growth_percent) /\ Val(growth_percent) <= MaxGrowth

\* min(a, b), max(a, b)
Min(a, b) == IF a <= b THEN a ELSE b
Max(a, b) == IF a >= b THEN a ELSE b

----------------------------------------------------------------------------
(* The texts of a page                                                     *)
(*                                                                         *)
(* The name text of a fragment is the text of the element that names the   *)
(* stock (Axis: the symbol link; tables: the company cell; cards: the      *)
(* heading), and on the card paths it is the only part of the card's text  *)
(* with capital letters: the rest is lower-case labels and numbers.        *)

NameTexts == {"", "TCS", "TCS EQ", "Tata Motors Ltd", "Infosys (INFY)", "BUY Tata Motors"}

\* re.findall(r'\b([A-Z]{2,5})\b', text)
UpperTokens(text) ==
    CASE text = "TCS" -> <<"TCS">>
      [] text = "TCS EQ" -> <<"TCS", "EQ">>
      [] text = "Infosys (INFY)" -> <<"INFY">>
      [] text = "BUY Tata Motors" -> <<"BUY">>
      [] OTHER -> <<>>

\* re.search(r'\(([A-Z]{2,5})\)', text)
ParenSymbol(text) == IF text = "Infosys (INFY)" THEN Some("INFY") ELSE None

\* text.split()[0] if text else ""
FirstWord(text) ==
    CASE text = "TCS EQ" -> "TCS"
      [] text = "Tata Motors Ltd" -> "Tata"
      [] text = "Infosys (INFY)" -> "Infosys"
      [] text = "BUY Tata Motors" -> "BUY"
      [] OTHER -> text

\* re.match(r'^[A-Z]{2,5}$', word)
IsSymbolWord(word) == word \in {"TCS", "EQ", "INFY", "BUY"}

\* re.findall(r'([A-Z][a-z]+(?:\s+[A-Z][a-z]+){1,}(?:\s+Ltd\.?)?)', text)
CapitalizedNames(text) ==
    CASE text = "Tata Motors Ltd" -> <<"Tata Motors Ltd">>
      [] text = "BUY Tata Motors" -> <<"Tata Motors">>
      [] OTHER -> <<>>

\* re.sub(r'\s+EQ$', '', text.strip(), flags=re.IGNORECASE).strip()
StripEQ(text) == IF text = "TCS EQ" THEN "TCS" ELSE text

\* str.upper() of a name text
UpperText(text) ==
    CASE text = "Tata Motors Ltd" -> "TATA MOTORS LTD"
      [] text = "Infosys (INFY)" -> "INFOSYS (INFY)"
      [] text = "BUY Tata Motors" -> "BUY TATA MOTORS"
      [] OTHER -> text

manual_symbol_map == [k \in {"INDIAN HOTELS CO"} |-> "INDHOTEL"]

\* axis_direct.py lines 16-41 and icici_direct.py lines 14-39
extract_symbol_from_text(text) ==
    IF text = "" THEN None
    ELSE LET cleaned_text == StripEQ(text)
         IN IF UpperText(cleaned_text) \in DOMAIN manual_symbol_map
            THEN Some(manual_symbol_map[UpperText(cleaned_text)])
            ELSE Some(cleaned_text)

\* [x for x in seq if x not in stop]
Without(seq, stop) == SelectSeq(seq, LAMBDA x : x \notin stop)

\* seq[0] if seq else None
FirstOrNone(seq) == IF seq = <<>> THEN None ELSE Some(seq[1])

\* 'sell'/'reduce' in text, then 'hold'/'neutral', else the default 'buy'
\* (fivepaisa.py lines 90-96 and 173-177)
RecTypeSellFirst(rec_text) ==
    IF rec_text = "sell" THEN "sell" ELSE IF rec_text = "hold" THEN "hold" ELSE "buy"

----------------------------------------------------------------------------
(* The fragments of a page and the leads made of them                      *)
(*                                                                         *)
(* A fragment is one card or one table row as the adapter's selectors see  *)
(* it: name is the name text (None when the element is absent), cmp,       *)
(* target and sl are the price strings under their labels or columns (None *)
(* when absent), extra holds the other numbers of the text in order, rec   *)
(* is the recommendation word, skip says that the fragment fails the       *)
(* adapter's structural test (too short, no keyword, too few cells) and    *)
(* raises that parsing it raises an exception.                             *)

Fragment(name, cmp, target, sl, extra, rec, skip, raises) ==
    [name |-> name, cmp |-> cmp, target |-> target, sl |-> sl, extra |-> extra,
     rec |-> rec, skip |-> skip, raises |-> raises]

\* The stock_details dict of every adapter (url and date are the same for
\* all leads of a page and are left out)
Lead(symbol, company_name, entry_price, target_price, stop_loss, growth_percent, rec, domain, confidence) ==
    [symbol |-> symbol, company_name |-> company_name, entry_price |-> entry_price,
     target_price |-> target_price, stop_loss |-> stop_loss,
     growth_percent |-> growth_percent, recommendation_type |-> rec,
     source |-> domain, confidence |-> confidence]

\* The growth every adapter computes: only when both prices are truthy
GrowthOf(entry_price, target_price) ==
    IF TruthyNum(entry_price) /\ TruthyNum(target_price) /\ Val(entry_price) > 0
    THEN calculate_growth_percent(entry_price, target_price)
    ELSE None

\* re.findall(r'(\d+(?:,\d+)*)', s): the maximal runs of digits, a comma
\* between two digits joining them (the price strings of the model carry no
\* fractional digits); cur is the run being read
RECURSIVE NumberGroups(_, _)
NumberGroups(s, cur) ==
    LET closed == IF cur = <<>> THEN <<>> ELSE <<cur>>
    IN IF s = <<>> THEN closed
       ELSE IF Head(s) \in DigitChars THEN NumberGroups(Tail(s), Append(cur, Head(s)))
       ELSE IF Head(s) = "," /\ cur # <<>> /\ Len(s) > 1 /\ s[2] \in DigitChars
       THEN NumberGroups(Tail(s), Append(cur, ","))
       ELSE closed \o NumberGroups(Tail(s), <<>>)

\* The numbers a findall of the price pattern yields on the price strings of
\* a text, in order
RECURSIVE NumbersIn(_)
NumbersIn(strings) ==
    IF strings = <<>> THEN <<>>
    ELSE (IF Head(strings) = None THEN <<>>
          ELSE LET groups == NumberGroups(Val(Head(strings)), <<>>)
               IN [i \in 1..Len(groups) |-> clean_price(Some(groups[i]))])
         \o NumbersIn(Tail(strings))

\* The price strings of a fragment's text, in document order
PriceStringsOf(f) == <<f.cmp, f.target, f.sl>> \o [i \in 1..Len(f.extra) |-> Some(f.extra[i])]

\* entry_range_str.split('-')[0]
RECURSIVE BeforeDash(_)
BeforeDash(s) ==
    IF s = <<>> \/ Head(s) = "-" THEN <<>> ELSE <<Head(s)>> \o BeforeDash(Tail(s))

----------------------------------------------------------------------------
(* scrapers/axis_direct.py *)

\* Lines 134-147: the confidence of an Axis Direct card
AxisConfidence(symbol, entry_price, target_price, stop_loss, growth_percent) ==
    LET c1 == IF TruthyStr(symbol) THEN 60 ELSE 50
        c2 == IF TruthyNum(entry_price) /\ TruthyNum(target_price) THEN 80 ELSE c1
        c3 == IF TruthyNum(stop_loss) THEN 90 ELSE c2
    IN IF growth_percent # None /\ is_target_growth_range(growth_percent)
       THEN Min(c3 + 10, 100) ELSE c3

\* Line 150: the card is kept
AxisKeeps(symbol) == TruthyStr(symbol)

\* Lines 87-166: one card; None when the card yields no lead
AxisCard(f) ==
    IF f.name = None THEN None
    ELSE IF f.skip THEN None
    ELSE LET symbol == extract_symbol_from_text(Val(f.name))
             company_name == f.name
             entry_price == IF f.cmp = None THEN None
                            ELSE clean_price(Some(BeforeDash(Val(f.cmp))))
             stop_loss == clean_price(f.sl)
             target_price == clean_price(f.target)
             growth_percent == GrowthOf(entry_price, target_price)
             confidence == AxisConfidence(symbol, entry_price, target_price, stop_loss, growth_percent)
         IN IF AxisKeeps(symbol)
            THEN Some(Lead(symbol, company_name, entry_price, target_price, stop_loss,
                           growth_percent, "buy", "axisdirect.in", confidence))
            ELSE None

\* The leads of a list of per-fragment results, in order: a fragment that
\* yielded nothing (None) leaves no lead
RECURSIVE Compact(_)
Compact(made) ==
    IF made = <<>> THEN <<>>
    ELSE (IF Head(made) = None THEN <<>> ELSE <<Val(Head(made))>>) \o Compact(Tail(made))

\* Lines 62-172: the try block encloses one card; a card that raises is
\* logged and skipped
scrape_axis_direct(soup) ==
    LET idea_cards == soup.cards
    IN IF idea_cards = <<>> THEN <<>>
       ELSE Compact([i \in 1..Len(idea_cards) |->
                        IF idea_cards[i].raises THEN None ELSE AxisCard(idea_cards[i])])

----------------------------------------------------------------------------
(* scrapers/icici_direct.py *)

\* Lines 139-150
IciciConfidence(symbol, entry_price, target_price, stop_loss, growth_percent) ==
    LET c1 == IF TruthyStr(symbol) THEN 60 ELSE 50
        c2 == IF TruthyNum(entry_price) /\ TruthyNum(target_price) THEN 80 ELSE c1
        c3 == IF TruthyNum(stop_loss) THEN 90 ELSE c2
    IN IF growth_percent # None /\ is_target_growth_range(growth_percent)
       THEN Min(c3 + 10, 100) ELSE c3

\* Line 153: the row is kept
IciciKeeps(symbol, entry_price, target_price) ==
    TruthyStr(symbol) /\ (TruthyNum(entry_price) \/ TruthyNum(target_price))

\* Lines 114-167: one row; mapped says whether the header row named the
\* optional entry price and stop loss columns
IciciRow(f, mapped) ==
    IF f.skip \/ f.name = None THEN None
    ELSE LET symbol == extract_symbol_from_text(Val(f.name))
             company_name == f.name
             entry_price == IF mapped THEN clean_price(f.cmp) ELSE None
             target_price == clean_price(f.target)
             stop_loss == IF mapped THEN clean_price(f.sl) ELSE None
             growth_percent == GrowthOf(entry_price, target_price)
             confidence == IciciConfidence(symbol, entry_price, target_price, stop_loss, growth_percent)
         IN IF IciciKeeps(symbol, entry_price, target_price)
            THEN Some(Lead(symbol, company_name, entry_price, target_price, stop_loss,
                           growth_percent, "buy", "icicidirect.com", confidence))
            ELSE None

\* Lines 41-173: the first table of the page; nothing without the table or
\* without its symbol and target columns; the try block encloses one row
scrape_icici_direct(soup) ==
    IF soup.tables = <<>> THEN <<>>
    ELSE IF ~soup.tables[1].stock_headers THEN <<>>
    ELSE LET rows == soup.tables[1].rows
         IN Compact([i \in 1..Len(rows) |->
                        IF rows[i].raises THEN None
                        ELSE IciciRow(rows[i], soup.tables[1].mapped)])

----------------------------------------------------------------------------
(* scrapers/fivepaisa.py *)

\* Lines 66-74: the symbol of a table row
FivepaisaRowSymbol(company_name) ==
    IF ParenSymbol(company_name) # None THEN ParenSymbol(company_name)
    ELSE IF IsSymbolWord(FirstWord(company_name)) THEN Some(FirstWord(company_name))
    ELSE None

\* Lines 106-117
\* A variant: the bonus is added without min(..., 1.0)
FivepaisaRowConfidence_NoCap(symbol, current_price, target_price, stop_loss, growth_percent) ==
    LET c1 == IF TruthyStr(symbol) THEN Max(70, 75) ELSE 70
        c2 == IF TruthyNum(current_price) /\ TruthyNum(target_price) THEN Max(c1, 85) ELSE c1
        c3 == IF TruthyNum(stop_loss) THEN Max(c2, 90) ELSE c2
    IN IF is_target_growth_range(growth_percent) THEN c3 + 15 ELSE c3

FivepaisaRowConfidence(symbol, current_price, target_price, stop_loss, growth_percent) ==
    LET c1 == IF TruthyStr(symbol) THEN Max(70, 75) ELSE 70
        c2 == IF TruthyNum(current_price) /\ TruthyNum(target_price) THEN Max(c1, 85) ELSE c1
        c3 == IF TruthyNum(stop_loss) THEN Max(c2, 90) ELSE c2
    IN IF is_target_growth_range(growth_percent) THEN Min(c3 + 15, 100) ELSE c3

\* Line 105: the row is kept
FivepaisaRowKeeps(company_name, current_price, target_price) ==
    TruthyStr(company_name) /\ (TruthyNum(target_price) \/ TruthyNum(current_price))

\* Lines 57-133: one data row; mapped says whether the header row named the
\* columns (without it col_map is empty and only cells[0] is read)
FivepaisaRow(f, mapped) ==
    IF f.skip \/ f.name = None THEN None
    ELSE LET company_name == f.name
             symbol == FivepaisaRowSymbol(Val(f.name))
             current_price == IF mapped THEN clean_price(f.cmp) ELSE None
             target_price == IF mapped THEN clean_price(f.target) ELSE None
             stop_loss == IF mapped THEN clean_price(f.sl) ELSE None
             rec_type == IF mapped THEN RecTypeSellFirst(f.rec) ELSE "buy"
             growth_percent == GrowthOf(current_price, target_price)
             confidence == FivepaisaRowConfidence(symbol, current_price, target_price,
                                                  stop_loss, growth_percent)
         IN IF FivepaisaRowKeeps(company_name, current_price, target_price)
            THEN Some(Lead(symbol, company_name, current_price, target_price, stop_loss,
                           growth_percent, rec_type, "5paisa.com", confidence))
            ELSE None

\* The rows a loop reaches when its try block encloses the whole table: those
\* before the first row that raises
RECURSIVE UntilRaise(_)
UntilRaise(rows) ==
    IF rows = <<>> \/ Head(rows).raises THEN <<>> ELSE <<Head(rows)>> \o UntilRaise(Tail(rows))

\* Lines 33-135: one table (a table without data rows is skipped)
FivepaisaTable(table) ==
    LET rows == UntilRaise(table.rows)
    IN Compact([i \in 1..Len(rows) |-> FivepaisaRow(rows[i], table.mapped)])

RECURSIVE FivepaisaTables(_)
FivepaisaTables(tables) ==
    IF tables = <<>> THEN <<>>
    ELSE FivepaisaTable(Head(tables)) \o FivepaisaTables(Tail(tables))

\* Lines 187-196
FivepaisaCardConfidence(symbol, company_name, current_price, target_price, growth_percent) ==
    LET c1 == IF TruthyStr(symbol) /\ TruthyStr(company_name) THEN Max(60, 70) ELSE 60
        c2 == IF TruthyNum(current_price) /\ TruthyNum(target_price) THEN Max(c1, 80) ELSE c1
    IN IF is_target_growth_range(growth_percent) THEN Min(c2 + 15, 100) ELSE c2

\* Line 186: the card is kept
FivepaisaCardKeeps(symbol, company_name, current_price, target_price) ==
    (TruthyStr(symbol) \/ TruthyStr(company_name))
    /\ (TruthyNum(current_price) \/ TruthyNum(target_price))

\* Lines 145-212: one card of the fallback path
FivepaisaCard(f) ==
    IF f.skip THEN None
    ELSE LET card_text == IF f.name = None THEN "" ELSE Val(f.name)
             company_name == FirstOrNone(CapitalizedNames(card_text))
             symbol == FirstOrNone(UpperTokens(card_text))
             prices == NumbersIn(PriceStringsOf(f))
             current_price == IF Len(prices) > 0 THEN prices[1] ELSE None
             target_price == IF Len(prices) > 1 THEN prices[2] ELSE None
             stop_loss == IF Len(prices) > 2 THEN prices[3] ELSE None
             rec_type == RecTypeSellFirst(f.rec)
             growth_percent == GrowthOf(current_price, target_price)
             confidence == FivepaisaCardConfidence(symbol, company_name, current_price,
                                                   target_price, growth_percent)
         IN IF FivepaisaCardKeeps(symbol, company_name, current_price, target_price)
            THEN Some(Lead(symbol, company_name, current_price, target_price, stop_loss,
                           growth_percent, rec_type, "5paisa.com", confidence))
            ELSE None

\* Lines 144-214: the try block encloses one card
FivepaisaCards(cards) ==
    Compact([i \in 1..Len(cards) |-> IF cards[i].raises THEN None ELSE FivepaisaCard(cards[i])])

\* str(x) of an optional string: 'None' for None
StrOf(o) == IF o = None THEN "None" ELSE Val(o)

\* Lines 217-225: the first tip of every signature (str(symbol), str(company_name))
RECURSIVE FivepaisaDedup(_, _)
FivepaisaDedup(tips, seen_signatures) ==
    IF tips = <<>> THEN <<>>
    ELSE LET sig == <<StrOf(Head(tips).symbol), StrOf(Head(tips).company_name)>>
         IN IF sig \notin seen_signatures
            THEN <<Head(tips)>> \o FivepaisaDedup(Tail(tips), seen_signatures \cup {sig})
            ELSE FivepaisaDedup(Tail(tips), seen_signatures)

\* Lines 14-228: the cards are read only when the tables gave nothing (line
\* 138)
scrape_5paisa(soup) ==
    LET from_tables == FivepaisaTables(soup.tables)
        stock_tips_collected == IF from_tables = <<>> THEN FivepaisaCards(soup.cards)
                                ELSE from_tables
    IN FivepaisaDedup(stock_tips_collected, {})

----------------------------------------------------------------------------
(* scrapers/moneycontrol.py *)

\* re.search(r'(\d+(?:,\d+)*(?:\.\d+)?)', text), cleaned: the first number of
\* a price string
FirstNumber(s) ==
    IF s = None THEN None
    ELSE IF NumberGroups(Val(s), <<>>) = <<>> THEN None
    ELSE clean_price(Some(NumberGroups(Val(s), <<>>)[1]))

\* Lines 70-74 and 241-245: the first upper-case token, unless it is a
\* recommendation word
MoneycontrolHeadingSymbol(text) ==
    LET symbol_match == FirstOrNone(UpperTokens(text))
    IN IF symbol_match # None /\ Val(symbol_match) \in {"BUY", "SELL", "HOLD"} THEN None
       ELSE symbol_match

\* Lines 80-84: the first token of the card text outside the stop list
MoneycontrolTextSymbol(card_text) ==
    FirstOrNone(Without(UpperTokens(card_text), {"BUY", "SELL", "HOLD", "CMP", "NSE", "BSE"}))

\* 'buy' in text.lower()
ContainsBuy(text) == text = "BUY Tata Motors"

\* Lines 87-94: buy is tested first
MoneycontrolCardRec(card_text, rec_text) ==
    IF ContainsBuy(card_text) THEN "buy"
    ELSE IF rec_text = "sell" THEN "sell"
    ELSE IF rec_text = "hold" THEN "hold"
    ELSE "buy"

\* Lines 166-176
\* A variant: the stop loss is looked at first, the prices last
MoneycontrolCardConfidence_StopLossFirst(symbol, current_price, target_price, stop_loss, growth_percent) ==
    LET c1 == IF TruthyNum(stop_loss) THEN 80 ELSE 60
        c2 == IF TruthyStr(symbol) THEN 65 ELSE c1
        c3 == IF TruthyNum(current_price) /\ TruthyNum(target_price) THEN 75 ELSE c2
    IN IF is_target_growth_range(growth_percent) THEN Min(c3 + 15, 100) ELSE c3

MoneycontrolCardConfidence(symbol, current_price, target_price, stop_loss, growth_percent) ==
    LET c1 == IF TruthyStr(symbol) THEN 65 ELSE 60
        c2 == IF TruthyNum(current_price) /\ TruthyNum(target_price) THEN 75 ELSE c1
        c3 == IF TruthyNum(stop_loss) THEN 80 ELSE c2
    IN IF is_target_growth_range(growth_percent) THEN Min(c3 + 15, 100) ELSE c3

\* A guard that asks for a price only
MoneycontrolKeeps_PricesOnly(symbol, company_name, current_price, target_price) ==
    TruthyNum(current_price) \/ TruthyNum(target_price)

\* Lines 164 and 300: the fragment is kept
MoneycontrolKeeps(symbol, company_name, current_price, target_price) ==
    (TruthyStr(symbol) \/ TruthyStr(company_name))
    /\ (TruthyNum(current_price) \/ TruthyNum(target_price))

\* Lines 144-155: the prices guessed from their position in the text; the
\* result is <<current_price, target_price, stop_loss>>
MoneycontrolGuess(f, current_price, target_price, stop_loss) ==
    IF TruthyNum(current_price) /\ TruthyNum(target_price)
    THEN <<current_price, target_price, stop_loss>>
    ELSE LET prices == NumbersIn(PriceStringsOf(f))
             \* min(prices[2:])
             smallest == CHOOSE m \in { prices[i] : i \in 3..Len(prices) } :
                             \A i \in 3..Len(prices) : Val(m) <= Val(prices[i])
         IN IF Len(prices) >= 2 /\ ~TruthyNum(current_price) /\ ~TruthyNum(target_price)
            THEN <<prices[1], prices[2],
                   IF Len(prices) >= 3 /\ ~TruthyNum(stop_loss)
                   THEN smallest ELSE stop_loss>>
            ELSE <<current_price, target_price, stop_loss>>

\* Lines 35-192: one card
MoneycontrolCard(f) ==
    IF f.skip THEN None
    ELSE LET heading_text == IF f.name = None THEN "" ELSE Val(f.name)
             company_name == IF heading_text # "" THEN Some(heading_text) ELSE None
             from_heading == IF heading_text # "" THEN MoneycontrolHeadingSymbol(heading_text)
                             ELSE None
             symbol == IF TruthyStr(from_heading) THEN from_heading
                       ELSE MoneycontrolTextSymbol(heading_text)
             recommendation == MoneycontrolCardRec(heading_text, f.rec)
             guessed == MoneycontrolGuess(f, FirstNumber(f.cmp), FirstNumber(f.target),
                                          FirstNumber(f.sl))
             current_price == guessed[1]
             target_price == guessed[2]
             stop_loss == guessed[3]
             growth_percent == GrowthOf(current_price, target_price)
             confidence == MoneycontrolCardConfidence(symbol, current_price, target_price,
                                                      stop_loss, growth_percent)
         IN IF MoneycontrolKeeps(symbol, company_name, current_price, target_price)
            THEN Some(Lead(symbol, company_name, current_price, target_price, stop_loss,
                           growth_percent, recommendation, "moneycontrol.com", confidence))
            ELSE None

\* Lines 34-194: the try block encloses one card
MoneycontrolCards(cards) ==
    Compact([i \in 1..Len(cards) |->
                IF cards[i].raises THEN None ELSE MoneycontrolCard(cards[i])])

\* Lines 265-271: the first number of every cell, when it is truthy
RECURSIVE CellPrices(_)
CellPrices(cells) ==
    IF cells = <<>> THEN <<>>
    ELSE (IF TruthyNum(FirstNumber(Head(cells))) THEN <<FirstNumber(Head(cells))>> ELSE <<>>)
         \o CellPrices(Tail(cells))

\* Lines 279-291: the first cell with a recommendation word decides
MoneycontrolRowRec(company_name, rec_text) ==
    IF ContainsBuy(company_name) THEN "buy"
    ELSE IF rec_text = "sell" THEN "sell"
    ELSE IF rec_text = "hold" THEN "hold"
    ELSE "buy"

\* Lines 302-310
MoneycontrolRowConfidence(symbol, current_price, target_price, growth_percent) ==
    LET c1 == IF TruthyStr(symbol) THEN 75 ELSE 70
        c2 == IF TruthyNum(current_price) /\ TruthyNum(target_price) THEN 85 ELSE c1
    IN IF is_target_growth_range(growth_percent) THEN Min(c2 + 15, 100) ELSE c2

\* Lines 231-326: one data row; mapped says whether the header row named the
\* price columns
MoneycontrolRow(f, mapped) ==
    IF f.skip \/ f.name = None THEN None
    ELSE LET company_name == f.name
             symbol == MoneycontrolHeadingSymbol(Val(f.name))
             mapped_current == IF mapped THEN clean_price(f.cmp) ELSE None
             mapped_target == IF mapped THEN clean_price(f.target) ELSE None
             stop_loss == IF mapped THEN clean_price(f.sl) ELSE None
             all_prices == CellPrices(PriceStringsOf(f))
             guess == ~TruthyNum(mapped_current) /\ ~TruthyNum(mapped_target)
                      /\ Len(all_prices) >= 2
             current_price == IF guess THEN all_prices[1] ELSE mapped_current
             target_price == IF guess THEN all_prices[2] ELSE mapped_target
             rec_type == MoneycontrolRowRec(Val(f.name), f.rec)
             growth_percent == GrowthOf(current_price, target_price)
             confidence == MoneycontrolRowConfidence(symbol, current_price, target_price,
                                                     growth_percent)
         IN IF MoneycontrolKeeps(symbol, company_name, current_price, target_price)
            THEN Some(Lead(symbol, company_name, current_price, target_price, stop_loss,
                           growth_percent, rec_type, "moneycontrol.com", confidence))
            ELSE None

\* Lines 200-328: one table; the try block encloses the whole table, and a
\* table without a stock header is skipped
MoneycontrolTable(table) ==
    IF ~table.stock_headers THEN <<>>
    ELSE LET rows == UntilRaise(table.rows)
         IN Compact([i \in 1..Len(rows) |-> MoneycontrolRow(rows[i], table.mapped)])

RECURSIVE MoneycontrolTables(_)
MoneycontrolTables(tables) ==
    IF tables = <<>> THEN <<>>
    ELSE MoneycontrolTable(Head(tables)) \o MoneycontrolTables(Tail(tables))

\* Lines 331-340: the first tip of every symbol; a tip without a symbol is
\* kept unless an equal tip was kept before
RECURSIVE MoneycontrolDedup(_, _, _)
MoneycontrolDedup(tips, final_tips, seen_symbols) ==
    IF tips = <<>> THEN final_tips
    ELSE LET tip == Head(tips)
         IN IF TruthyStr(tip.symbol) /\ Val(tip.symbol) \notin seen_symbols
            THEN MoneycontrolDedup(Tail(tips), Append(final_tips, tip),
                                   seen_symbols \cup {Val(tip.symbol)})
            ELSE IF ~TruthyStr(tip.symbol) /\ ~(\E i \in 1..Len(final_tips) : final_tips[i] = tip)
            THEN MoneycontrolDedup(Tail(tips), Append(final_tips, tip), seen_symbols)
            ELSE MoneycontrolDedup(Tail(tips), final_tips, seen_symbols)

\* Lines 14-343: the cards, then always the tables
scrape_moneycontrol(soup) ==
    MoneycontrolDedup(MoneycontrolCards(soup.cards) \o MoneycontrolTables(soup.tables),
                      <<>>, {})

----------------------------------------------------------------------------
(* The pages an adapter is given *)

\* The price strings of the pages
Text ==
    [na |-> <<"N", "A">>, dash |-> <<"-">>, p0 |-> <<"0">>,
     p80 |-> <<"8", "0">>, p90 |-> <<"9", "0">>, p95 |-> <<"9", "5">>,
     p100 |-> <<"1", "0", "0">>, p100_105 |-> <<"1", "0", "0", "-", "1", "0", "5">>,
     p110 |-> <<"1", "1", "0">>, p120 |-> <<"1", "2", "0">>, p130 |-> <<"1", "3", "0">>]

\* Every combination of the texts of one well-formed fragment
PlainFragments ==
    { Fragment(n, c, t, s, x, "", FALSE, FALSE) :
        n \in {None} \cup { Some(text) : text \in NameTexts },
        c \in {None, Some(Text.na), Some(Text.p0), Some(Text.p100), Some(Text.p100_105)},
        t \in {None, Some(Text.dash), Some(Text.p110), Some(Text.p130)},
        s \in {None, Some(Text.p90), Some(Text.p120)},
        x \in {<<>>, <<Text.p95, Text.p80>>} }

\* The fragments of the pages with several fragments
SomeFragments ==
    { Fragment(Some("TCS"), Some(Text.p100), Some(Text.p110), Some(Text.p90), <<>>, "", FALSE, FALSE),
      Fragment(Some("TCS"), Some(Text.p100), Some(Text.p130), Some(Text.p120), <<>>, "hold", FALSE, FALSE),
      Fragment(Some("Tata Motors Ltd"), Some(Text.p100), Some(Text.p110), Some(Text.p120), <<>>, "sell", FALSE, FALSE),
      Fragment(Some(""), Some(Text.p100), Some(Text.p110), None, <<>>, "", FALSE, FALSE),
      Fragment(Some("TCS"), Some(Text.p100), Some(Text.p110), None, <<>>, "", TRUE, FALSE),
      Fragment(Some("TCS EQ"), Some(Text.p100), Some(Text.p110), None, <<>>, "", FALSE, TRUE) }

\* A <table>: stock_headers says that its header row names the stock columns
\* the adapter requires, mapped that the column mapping found the price
\* columns; rows are the data rows
Table(stock_headers, mapped, rows) ==
    [stock_headers |-> stock_headers, mapped |-> mapped, rows |-> rows]

\* The parsed page: the cards and the tables the selectors find
Soup(cards, tables) == [cards |-> cards, tables |-> tables]

SeqsUpTo(S, n) == UNION { [1..k -> S] : k \in 0..n }

\* The rows in one table, or split over two tables after the k-th row
TablesOf(rows, k, stock_headers, mapped) ==
    IF rows = <<>> THEN <<>>
    ELSE IF k = Len(rows) THEN <<Table(stock_headers, mapped, rows)>>
    ELSE <<Table(stock_headers, mapped, SubSeq(rows, 1, k)),
           Table(TRUE, TRUE, SubSeq(rows, k + 1, Len(rows)))>>

\* Pages of one fragment, as a card or as the row of a table
SinglePages ==
    { Soup(<<f>>, <<>>) : f \in PlainFragments }
    \cup { Soup(<<>>, <<Table(h, m, <<f>>)>>) : f \in PlainFragments, h \in BOOLEAN, m \in BOOLEAN }

\* Pages of at most MaxFrags fragments; the tables have their price columns
\* mapped
MixedPages ==
    UNION { UNION { { Soup(c, TablesOf(r, k, h, TRUE)) : k \in 0..Len(r), h \in BOOLEAN } :
                      r \in SeqsUpTo(SomeFragments, MaxFrags - Len(c)) } :
              c \in SeqsUpTo(SomeFragments, MaxFrags) }

Pages == SinglePages \cup MixedPages

\* scrapers/__init__.py: the registered adapters
scraper_mapping == {"axis_direct", "icici_direct", "5paisa", "moneycontrol"}

\* scrape_website has fetched and parsed the page of its source
InitAdapters ==
    /\ use_rotating_agents = TRUE
    /\ use_random_delays = TRUE
    /\ InitManager
    /\ IdleCons
    /\ IdleRun
    /\ IdlePool
    /\ IdleScore
    /\ IdleViews
    /\ IdleExtract
    /\ source \in scraper_mapping
    /\ page \in Pages
    /\ stock_tips = None

\* run_stock_scrapers.py line 102: stock_tips = scraper_func(soup, url)
ScrapeAxisDirect ==
    /\ source = "axis_direct"
    /\ stock_tips = None
    /\ stock_tips' = Some(scrape_axis_direct(page))
    /\ UNCHANGED <<source, page, fetchVars, consVars, runVars, poolVars, scoreVars,
                   viewVars, extractVars>>

ScrapeIciciDirect ==
    /\ source = "icici_direct"
    /\ stock_tips = None
    /\ stock_tips' = Some(scrape_icici_direct(page))
    /\ UNCHANGED <<source, page, fetchVars, consVars, runVars, poolVars, scoreVars,
                   viewVars, extractVars>>

Scrape5paisa ==
    /\ source = "5paisa"
    /\ stock_tips = None
    /\ stock_tips' = Some(scrape_5paisa(page))
    /\ UNCHANGED <<source, page, fetchVars, consVars, runVars, poolVars, scoreVars,
                   viewVars, extractVars>>

ScrapeMoneycontrol ==
    /\ source = "moneycontrol"
    /\ stock_tips = None
    /\ stock_tips' = Some(scrape_moneycontrol(page))
    /\ UNCHANGED <<source, page, fetchVars, consVars, runVars, poolVars, scoreVars,
                   viewVars, extractVars>>

NextAdapters ==
    \/ ScrapeAxisDirect
    \/ ScrapeIciciDirect
    \/ Scrape5paisa
    \/ ScrapeMoneycontrol

SpecAdapters == InitAdapters /\ [][NextAdapters]_vars

----------------------------------------------------------------------------
(* data_processing.py *)

\* f"{x}" of an optional number: 'None' for None, else the digits of the
\* float, which differ for different numbers
StrOfNum(o) == IF o = None THEN <<"None">> ELSE <<"float", Val(o)>>

\* tip.get('confidence', 0)
ConfidenceOf(tip) == DictGet(tip, "confidence", 0)

\* Lines 79-87: the signature f"{symbol}_{target}" or f"{company}_{target}"
DedupKey(tip) ==
    LET symbol == DictGet(tip, "symbol", None)
        company == DictGet(tip, "company_name", None)
        target == DictGet(tip, "target_price", None)
    IN IF TruthyStr(symbol) THEN <<Val(symbol), "_", StrOfNum(target)>>
       ELSE <<StrOf(company), "_", StrOfNum(target)>>

\* The position of key in the dict (0 when absent); the dict is the sequence
\* of its items in insertion order
KeyIndex(unique_tips, key) ==
    IF \E i \in 1..Len(unique_tips) : unique_tips[i].key = key
    THEN CHOOSE i \in 1..Len(unique_tips) : unique_tips[i].key = key
    ELSE 0

\* A comparison that also replaces on a tie
Replaces_OnTie(tip, kept) == ConfidenceOf(tip) >= ConfidenceOf(kept)

\* Line 90: the new tip replaces the kept one
Replaces(tip, kept) == ConfidenceOf(tip) > ConfidenceOf(kept)

\* Lines 78-91: the loop; a replaced item keeps its place in the dict
RECURSIVE DedupLoop(_, _)
DedupLoop(stock_tips_left, unique_tips) ==
    IF stock_tips_left = <<>> THEN unique_tips
    ELSE LET tip == Head(stock_tips_left)
             key == DedupKey(tip)
             at == KeyIndex(unique_tips, key)
         IN IF at = 0
            THEN DedupLoop(Tail(stock_tips_left), Append(unique_tips, [key |-> key, tip |-> tip]))
            ELSE IF Replaces(tip, unique_tips[at].tip)
            THEN DedupLoop(Tail(stock_tips_left),
                           [unique_tips EXCEPT ![at] = [key |-> key, tip |-> tip]])
            ELSE DedupLoop(Tail(stock_tips_left), unique_tips)

\* Lines 63-97: list(unique_tips.values())
deduplicate_stock_tips(tips) ==
    LET unique_tips == DedupLoop(tips, <<>>)
    IN [i \in 1..Len(unique_tips) |-> unique_tips[i].tip]

\* An element of stock_tips_list: a list of tips, or one tip
ListOf(tips) == [is_list |-> TRUE, items |-> tips]
BareTip(tip) == [is_list |-> FALSE, items |-> <<tip>>]

\* A flattening that drops what is not a list
FlattenOne_ListsOnly(tips) == IF tips.is_list THEN tips.items ELSE <<>>

\* Lines 172-175: extend with a list, append anything else
FlattenOne(tips) == IF tips.is_list THEN tips.items ELSE <<tips.items[1]>>

\* Lines 170-175
RECURSIVE Flatten(_)
Flatten(stock_tips_list) ==
    IF stock_tips_list = <<>> THEN <<>>
    ELSE FlattenOne(Head(stock_tips_list)) \o Flatten(Tail(stock_tips_list))

\* list.insert before the first item of a smaller confidence: one step of a
\* stable descending sort
RECURSIVE InsertByConfidence(_, _)
InsertByConfidence(tip, sorted) ==
    IF sorted = <<>> THEN <<tip>>
    ELSE IF ConfidenceOf(Head(sorted)) >= ConfidenceOf(tip)
    THEN <<Head(sorted)>> \o InsertByConfidence(tip, Tail(sorted))
    ELSE <<tip>> \o sorted

\* Line 181: sorted(..., key=confidence, reverse=True), a stable sort
RECURSIVE SortedByConfidence(_, _)
SortedByConfidence(tips, sorted) ==
    IF tips = <<>> THEN sorted
    ELSE SortedByConfidence(Tail(tips), InsertByConfidence(Head(tips), sorted))

\* Lines 159-184
consolidate_findings(stock_tips_list) ==
    SortedByConfidence(deduplicate_stock_tips(Flatten(stock_tips_list)), <<>>)

\* A dict without one of its keys
DictWithout(d, k) == [x \in (DOMAIN d) \ {k} |-> d[x]]

\* The leads the consolidation is given: leads as the adapters build them
\* (one has lost its confidence key)
Tip ==
    [tcs60 |-> Lead(Some("TCS"), Some("TCS"), Some(3400), Some(3500), None, None,
                    "buy", "axisdirect.in", 60),
     tcs90 |-> Lead(Some("TCS"), Some("TCS"), Some(3400), Some(3500), Some(3300), None,
                    "buy", "icicidirect.com", 90),
     tcs90b |-> Lead(Some("TCS"), Some("TCS Ltd"), Some(3450), Some(3500), Some(3300), None,
                     "buy", "5paisa.com", 90),
     tcs3600 |-> Lead(Some("TCS"), Some("TCS"), Some(3400), Some(3600), None, Some(588),
                      "buy", "moneycontrol.com", 90),
     tata |-> Lead(None, Some("Tata Motors Ltd"), Some(100), Some(110), None, Some(1000),
                   "sell", "5paisa.com", 95),
     tata_axis |-> DictWithout(Lead(Some("Tata Motors Ltd"), Some("Tata Motors Ltd"), None,
                                    Some(110), None, None, "buy", "axisdirect.in", 0),
                               "confidence")]

Tips == { Tip[k] : k \in DOMAIN Tip }

\* The ways a list of tips is handed over: tip by tip, as one list, or as
\* two lists split after the k-th tip
StockTipsLists ==
    UNION { { [i \in 1..Len(tips) |-> BareTip(tips[i])], <<ListOf(tips)>> }
            \cup { <<ListOf(SubSeq(tips, 1, k)), ListOf(SubSeq(tips, k + 1, Len(tips)))>> :
                     k \in 0..Len(tips) } :
            tips \in SeqsUpTo(Tips, MaxTips) }

InitConsolidate ==
    /\ use_rotating_agents = TRUE
    /\ use_random_delays = TRUE
    /\ InitManager
    /\ IdleAdapter
    /\ IdleRun
    /\ IdlePool
    /\ IdleScore
    /\ IdleViews
    /\ IdleExtract
    /\ tips_in \in StockTipsLists
    /\ deduplicated_tips = None
    /\ sorted_tips = None
    /\ deduplicated_again = None
    /\ sorted_again = None

\* run_stock_scrapers.py lines 347-353: the lists of the sources are joined
\* and deduplicated
Deduplicate ==
    /\ deduplicated_tips = None
    /\ deduplicated_tips' = Some(deduplicate_stock_tips(Flatten(tips_in)))
    /\ UNCHANGED <<tips_in, sorted_tips, deduplicated_again, sorted_again,
                   fetchVars, adapterVars, runVars, poolVars, scoreVars, viewVars, extractVars>>

\* deduplicate_stock_tips applied to its own result
DeduplicateAgain ==
    /\ deduplicated_tips # None
    /\ deduplicated_again = None
    /\ deduplicated_again' = Some(deduplicate_stock_tips(Val(deduplicated_tips)))
    /\ UNCHANGED <<tips_in, deduplicated_tips, sorted_tips, sorted_again,
                   fetchVars, adapterVars, runVars, poolVars, scoreVars, viewVars, extractVars>>

\* consolidate_findings(stock_tips_list)
Consolidate ==
    /\ sorted_tips = None
    /\ sorted_tips' = Some(consolidate_findings(tips_in))
    /\ UNCHANGED <<tips_in, deduplicated_tips, deduplicated_again, sorted_again,
                   fetchVars, adapterVars, runVars, poolVars, scoreVars, viewVars, extractVars>>

\* consolidate_findings applied to its own result, handed over as it is (a
\* list of tips) or as the one list of a list of lists
ConsolidateAgain ==
    /\ sorted_tips # None
    /\ sorted_again = None
    /\ \E as_list \in BOOLEAN :
         sorted_again' =
             Some(consolidate_findings(
                      IF as_list THEN <<ListOf(Val(sorted_tips))>>
                      ELSE [i \in 1..Len(Val(sorted_tips)) |-> BareTip(Val(sorted_tips)[i])]))
    /\ UNCHANGED <<tips_in, deduplicated_tips, sorted_tips, deduplicated_again,
                   fetchVars, adapterVars, runVars, poolVars, scoreVars, viewVars, extractVars>>

NextConsolidate ==
    \/ Deduplicate
    \/ DeduplicateAgain
    \/ Consolidate
    \/ ConsolidateAgain

SpecConsolidate == InitConsolidate /\ [][NextConsolidate]_vars

----------------------------------------------------------------------------
(* The scoring paths *)

\* base_scraper.py, extract_stock_details: the confidence starts at 0.5 and is
\* raised by max() when a target pattern matches (0.6), when a stop loss
\* pattern matches (0.65) and when the text names buy, sell or hold (0.7); the
\* bonus for a growth in the band is capped at 1.0
ExtractConfidence(target_matched, sl_matched, explicit_rec, growth_percent) ==
    LET c0 == 50
        c1 == IF target_matched THEN Max(c0, 60) ELSE c0
        c2 == IF sl_matched THEN Max(c1, 65) ELSE c1
        c3 == IF explicit_rec THEN Max(c2, 70) ELSE c2
    IN IF is_target_growth_range(growth_percent) THEN Min(c3 + 15, 100) ELSE c3

ScoringPaths ==
    {"axis_direct", "icici_direct", "5paisa table", "5paisa card",
     "moneycontrol card", "moneycontrol table", "extract_stock_details"}

\* What an extraction can have found: each field present or absent, a price
\* of 0 included (it counts as absent in the tests of the scoring), growths
\* below, in and above the band; explicit_rec says that the text names buy,
\* sell or hold
Findings ==
    [symbol : {None, Some("TCS")},
     company_name : {None, Some("Tata Motors Ltd")},
     entry_price : {None, Some(0), Some(100)},
     target_price : {None, Some(0), Some(105), Some(110), Some(130)},
     stop_loss : {None, Some(0), Some(90)},
     explicit_rec : BOOLEAN]

\* The confidence block of a path, run on what was found and on the growth
\* computed from it
PathConfidence(path, f, growth_percent) ==
    CASE path = "axis_direct" ->
           AxisConfidence(f.symbol, f.entry_price, f.target_price, f.stop_loss, growth_percent)
      [] path = "icici_direct" ->
           IciciConfidence(f.symbol, f.entry_price, f.target_price, f.stop_loss, growth_percent)
      [] path = "5paisa table" ->
           FivepaisaRowConfidence(f.symbol, f.entry_price, f.target_price, f.stop_loss,
                                  growth_percent)
      [] path = "5paisa card" ->
           FivepaisaCardConfidence(f.symbol, f.company_name, f.entry_price, f.target_price,
                                   growth_percent)
      [] path = "moneycontrol card" ->
           MoneycontrolCardConfidence(f.symbol, f.entry_price, f.target_price, f.stop_loss,
                                      growth_percent)
      [] path = "moneycontrol table" ->
           MoneycontrolRowConfidence(f.symbol, f.entry_price, f.target_price, growth_percent)
      [] path = "extract_stock_details" ->
           ExtractConfidence(f.target_price # None, f.stop_loss # None, f.explicit_rec,
                             growth_percent)

\* The confidence a scoring path assigns to what was found
ScoreOf(path, f) == PathConfidence(path, f, GrowthOf(f.entry_price, f.target_price))

\* A fragment has been read and is about to be scored
InitScoring ==
    /\ use_rotating_agents = TRUE
    /\ use_random_delays = TRUE
    /\ InitManager
    /\ IdleAdapter
    /\ IdleCons
    /\ IdleRun
    /\ IdlePool
    /\ IdleViews
    /\ IdleExtract
    /\ scoring_path \in ScoringPaths
    /\ found \in Findings
    /\ scored = None

\* The confidence block of the path runs
Score ==
    /\ scored = None
    /\ scored' = Some(ScoreOf(scoring_path, found))
    /\ UNCHANGED <<scoring_path, found, fetchVars, adapterVars, consVars, runVars, poolVars,
                   viewVars, extractVars>>

NextScoring == Score

SpecScoring == InitScoring /\ [][NextScoring]_vars

----------------------------------------------------------------------------
(* run_stock_scrapers.py: run_scrapers *)

\* The largest number of sources a run is asked for
MaxSources == 2

\* scrapers/__init__.py: the sources that have a URL
target_urls == {"axis_direct", "icici_direct", "5paisa", "moneycontrol"}

\* TARGET_SOURCES = list(target_urls.keys())
TARGET_SOURCES == <<"axis_direct", "icici_direct", "5paisa", "moneycontrol">>

\* The names a run can be asked for: the registered ones and one that is not
SourceNames == scraper_mapping \cup {"sharekhan"}

\* The pages a fetch of the run can bring: an empty one, one card, one table
RunPages ==
    LET row == Fragment(Some("TCS"), Some(Text.p100), Some(Text.p110), Some(Text.p90),
                        <<>>, "", FALSE, FALSE)
    IN { Soup(<<>>, <<>>), Soup(<<row>>, <<>>), Soup(<<>>, <<Table(TRUE, TRUE, <<row>>)>>) }

\* scraper_func(soup, url) for scraper_func = get_scraper(source_name)
scraper_func(source_name, soup) ==
    CASE source_name = "axis_direct" -> scrape_axis_direct(soup)
      [] source_name = "icici_direct" -> scrape_icici_direct(soup)
      [] source_name = "5paisa" -> scrape_5paisa(soup)
      [] source_name = "moneycontrol" -> scrape_moneycontrol(soup)

\* What a call of scrape_website comes to: the list it returns, or the
\* exception that leaves it; why is the path it took
Scraped(raises, tips, why) ==
    [raised |-> raises, stock_tips |-> tips, why |-> why]

\* A variant: the call of the adapter is not wrapped in a try
ExecuteScraper_Uncaught(source_name, soup, adapter_raises) ==
    IF adapter_raises
    THEN Scraped(TRUE, <<>>, "adapter raised")
    ELSE Scraped(FALSE, scraper_func(source_name, soup), "scraped")

\* Lines 99-108: try: return scraper_func(soup, url); except Exception: return []
ExecuteScraper(source_name, soup, adapter_raises) ==
    IF adapter_raises
    THEN Scraped(FALSE, <<>>, "adapter raised")
    ELSE Scraped(FALSE, scraper_func(source_name, soup), "scraped")

\* scrape_website(source_name) of run_stock_scrapers.py. fetched is what
\* fetch_content_with_ab returned, parsed; adapter_raises says that an exception
\* leaves the adapter. For moneycontrol the import of run_moneycontrol_scraper
\* fails with ImportError (scrapers/moneycontrol.py defines no such function),
\* which is caught, and the regular path is taken.
scrape_website(source_name, fetched, adapter_raises) ==
    IF source_name \notin scraper_mapping THEN Scraped(FALSE, <<>>, "no scraper")
    ELSE IF source_name \notin target_urls THEN Scraped(FALSE, <<>>, "no url")
    ELSE IF fetched = None THEN Scraped(FALSE, <<>>, "fetch failed")
    ELSE ExecuteScraper(source_name, Val(fetched), adapter_raises)

\* results.values() joined, in dict order: a key stands where it was first set
RECURSIVE ResultsJoined(_, _, _)
ResultsJoined(names, done, d) ==
    IF names = <<>> THEN <<>>
    ELSE IF Head(names) \in done \/ Head(names) \notin DOMAIN d
         THEN ResultsJoined(Tail(names), done, d)
         ELSE d[Head(names)].stock_tips
              \o ResultsJoined(Tail(names), done \cup {Head(names)}, d)

\* run_scrapers has been called: sources is None (all sources) or a list
InitRun ==
    /\ use_rotating_agents = TRUE
    /\ use_random_delays = TRUE
    /\ InitManager
    /\ IdleAdapter
    /\ IdleCons
    /\ IdlePool
    /\ IdleScore
    /\ IdleViews
    /\ IdleExtract
    /\ run_pc = "loop"
    /\ sources \in SeqsUpTo(SourceNames, MaxSources) \cup {TARGET_SOURCES}
    /\ source_index = 1
    /\ results = <<>>
    /\ combined = None

\* One pass of the loop over sources: results[source_name] = scrape_website(...).
\* The entry keeps, besides the list, the path scrape_website took. An exception
\* that leaves scrape_website leaves run_scrapers too: the loop has no try.
ProcessSource ==
    /\ run_pc = "loop"
    /\ source_index <= Len(sources)
    /\ \E fetched \in {None} \cup { Some(p) : p \in RunPages }, adapter_raises \in BOOLEAN :
          LET source_name == sources[source_index]
              scraped == scrape_website(source_name, fetched, adapter_raises)
          IN IF scraped.raised
             THEN /\ run_pc' = "aborted"
                  /\ UNCHANGED <<source_index, results>>
             ELSE /\ results' = DictSet(results, source_name,
                                        [stock_tips |-> scraped.stock_tips, why |-> scraped.why])
                  /\ source_index' = source_index + 1
                  /\ UNCHANGED run_pc
    /\ UNCHANGED <<sources, combined, fetchVars, adapterVars, consVars, poolVars,
                   scoreVars, viewVars, extractVars>>

\* After the loop: the lists are joined and deduplicated, the files written,
\* and (output_dir, results) returned
FinishRun ==
    /\ run_pc = "loop"
    /\ source_index > Len(sources)
    /\ combined' = Some(deduplicate_stock_tips(ResultsJoined(sources, {}, results)))
    /\ run_pc' = "returned"
    /\ UNCHANGED <<sources, source_index, results, fetchVars, adapterVars, consVars,
                   poolVars, scoreVars, viewVars, extractVars>>

NextRun ==
    \/ ProcessSource
    \/ FinishRun

SpecRun == InitRun /\ [][NextRun]_vars

\* The loop and the return are steps of one thread, which runs on
SpecRunFair == SpecRun /\ WF_vars(NextRun)

----------------------------------------------------------------------------
(* base_scraper.py: scrape_multi_threaded *)

\* The largest number of URLs handed to the pool
MaxUrls == 3

\* The URLs the pool can be handed: the pages of the four sources
PoolUrls == {"axisdirect.in", "icicidirect.com", "5paisa.com", "moneycontrol.com"}

\* Lists of distinct URLs
UrlLists ==
    { urls \in SeqsUpTo(PoolUrls, MaxUrls) :
        \A i, j \in 1..Len(urls) : urls[i] = urls[j] => i = j }

\* The session a task fetches its URL with: scrape_website(url) calls
\* fetch_content_with_ab, which calls the module's one ab_manager, whose
\* session is created once, in its constructor
SessionOf(task_url) == "ab_manager.session"

\* A submitted task: scrape_website(url) waits for a worker, fetches, extracts
\* the tips and is done
Future(task_url) == [url |-> task_url, state |-> "pending", session |-> None, result |-> <<>>]

\* What scrape_website(url) can return: [] after a failed fetch or an
\* exception, or what extract_stock_tips_from_page found (complete_stock_finder
\* is not part of the sources; its result is any list, here none or one lead)
TaskResults(task_url) == { <<>>, <<[source |-> task_url]>> }

Working == { i \in 1..Len(futures) : futures[i].state \in {"fetching", "extracting"} }

\* scrape_multi_threaded has submitted a task for every URL
InitPool ==
    /\ use_rotating_agents = TRUE
    /\ use_random_delays = TRUE
    /\ InitManager
    /\ IdleAdapter
    /\ IdleCons
    /\ IdleRun
    /\ IdleScore
    /\ IdleViews
    /\ IdleExtract
    /\ pool_pc = "collecting"
    /\ urls_to_scrape \in UrlLists
    /\ max_workers \in {1, 2, 5}
    /\ futures = [i \in 1..Len(urls_to_scrape) |-> Future(urls_to_scrape[i])]
    /\ completed = <<>>
    /\ awaited = 0
    /\ all_stock_tips = <<>>

\* A free worker takes the oldest waiting task and starts its fetch
StartTask ==
    /\ pool_pc = "collecting"
    /\ Cardinality(Working) < max_workers
    /\ \E i \in 1..Len(futures) :
          /\ futures[i].state = "pending"
          /\ \A j \in 1..(i - 1) : futures[j].state # "pending"
          /\ futures' = [futures EXCEPT ![i].state = "fetching",
                                        ![i].session = Some(SessionOf(futures[i].url))]
    /\ UNCHANGED <<pool_pc, urls_to_scrape, max_workers, completed, awaited, all_stock_tips,
                   fetchVars, adapterVars, consVars, runVars, scoreVars, viewVars, extractVars>>

\* The fetch of a task has returned: the task is through with the session
FetchReturns ==
    /\ pool_pc = "collecting"
    /\ \E i \in 1..Len(futures) :
          /\ futures[i].state = "fetching"
          /\ futures' = [futures EXCEPT ![i].state = "extracting", ![i].session = None]
    /\ UNCHANGED <<pool_pc, urls_to_scrape, max_workers, completed, awaited, all_stock_tips,
                   fetchVars, adapterVars, consVars, runVars, scoreVars, viewVars, extractVars>>

\* scrape_website(url) returns in its worker
FinishTask ==
    /\ pool_pc = "collecting"
    /\ \E i \in 1..Len(futures) :
          /\ futures[i].state = "extracting"
          /\ \E stock_tips_found \in TaskResults(futures[i].url) :
                futures' = [futures EXCEPT ![i].state = "done", ![i].result = stock_tips_found]
          /\ completed' = Append(completed, i)
    /\ UNCHANGED <<pool_pc, urls_to_scrape, max_workers, awaited, all_stock_tips,
                   fetchVars, adapterVars, consVars, runVars, scoreVars, viewVars, extractVars>>

\* for future in future_to_url: the next future whose result() is taken is the
\* next one submitted (a dict is iterated in insertion order); result() blocks
\* until that task is done. 0: none can be taken now
NextCollected ==
    IF awaited < Len(futures) /\ futures[awaited + 1].state = "done" THEN awaited + 1 ELSE 0

\* One pass of the loop over future_to_url: all_stock_tips.extend(future.result())
CollectResult ==
    /\ pool_pc = "collecting"
    /\ NextCollected # 0
    /\ all_stock_tips' = all_stock_tips \o futures[NextCollected].result
    /\ awaited' = awaited + 1
    /\ UNCHANGED <<pool_pc, urls_to_scrape, max_workers, futures, completed,
                   fetchVars, adapterVars, consVars, runVars, scoreVars, viewVars, extractVars>>

\* The loop is over: the executor is left and all_stock_tips returned
ReturnTips ==
    /\ pool_pc = "collecting"
    /\ awaited = Len(futures)
    /\ pool_pc' = "returned"
    /\ UNCHANGED <<urls_to_scrape, max_workers, futures, completed, awaited, all_stock_tips,
                   fetchVars, adapterVars, consVars, runVars, scoreVars, viewVars, extractVars>>

NextPool ==
    \/ StartTask
    \/ FetchReturns
    \/ FinishTask
    \/ CollectResult
    \/ ReturnTips

SpecPool == InitPool /\ [][NextPool]_vars

----------------------------------------------------------------------------
(* data_processing.py: the views *)

\* The largest number of leads the views are made of
MaxViewTips == 2

\* A variant: a lead at the threshold is left out
QualityKeeps_Above(tip, min_confidence) == ConfidenceOf(tip) > min_confidence

\* Line 24: tip.get('confidence', 0) >= min_confidence
QualityKeeps(tip, min_confidence) == ConfidenceOf(tip) >= min_confidence

\* Lines 11-31
filter_quality_tips(stock_tips_in, min_confidence) ==
    IF stock_tips_in = <<>> THEN <<>>
    ELSE SortedByConfidence(
             SelectSeq(stock_tips_in, LAMBDA tip : QualityKeeps(tip, min_confidence)), <<>>)

\* A variant: the growth has to lie between the two arguments
GrowthKeeps_InRange(tip, min_growth, max_growth) ==
    LET growth == DictGet(tip, "growth_percent", None)
    IN /\ growth # None
       /\ min_growth # None => Val(growth) >= Val(min_growth)
       /\ max_growth # None => Val(growth) <= Val(max_growth)

\* Line 50: tip.get('growth_percent') is not None
GrowthKeeps(tip, min_growth, max_growth) == DictGet(tip, "growth_percent", None) # None

\* Lines 33-56
filter_target_growth(stock_tips_in, min_growth, max_growth) ==
    IF stock_tips_in = <<>> THEN <<>>
    ELSE SortedByConfidence(
             SelectSeq(stock_tips_in, LAMBDA tip : GrowthKeeps(tip, min_growth, max_growth)),
             <<>>)

\* The leads of the views: those of the consolidation, and one at the default
\* threshold whose target lies below its entry price
ViewTips ==
    Tips \cup { Lead(Some("INFY"), Some("Infosys"), Some(100), Some(90), None, Some(0 - 1000),
                     "sell", "5paisa.com", 70) }

\* The arguments of a call: min_confidence, min_growth, max_growth
Args(min_confidence, min_growth, max_growth) ==
    [min_confidence |-> min_confidence, min_growth |-> min_growth, max_growth |-> max_growth]

\* The defaults: min_confidence=0.7, min_growth=None, max_growth=None
DefaultArgs == Args(70, None, None)

\* A list of leads is at hand
InitViews ==
    /\ use_rotating_agents = TRUE
    /\ use_random_delays = TRUE
    /\ InitManager
    /\ IdleAdapter
    /\ IdleCons
    /\ IdleRun
    /\ IdlePool
    /\ IdleScore
    /\ IdleExtract
    /\ view_input \in SeqsUpTo(ViewTips, MaxViewTips)
    /\ view_args = DefaultArgs
    /\ quality_view = None
    /\ growth_view = None

\* filter_quality_tips(stock_tips, min_confidence)
FilterQuality ==
    /\ quality_view = None
    /\ \E min_confidence \in {60, 70, 90} :
          /\ quality_view' = Some(filter_quality_tips(view_input, min_confidence))
          /\ view_args' = [view_args EXCEPT !.min_confidence = min_confidence]
    /\ UNCHANGED <<view_input, growth_view, fetchVars, adapterVars, consVars, runVars,
                   poolVars, scoreVars, extractVars>>

\* filter_target_growth(stock_tips, min_growth, max_growth), and its alias
\* filter_target_growth_tips, whose defaults are 7 and 15
FilterTargetGrowth ==
    /\ growth_view = None
    /\ \E min_growth \in {None, Some(MinGrowth)}, max_growth \in {None, Some(MaxGrowth)} :
          /\ growth_view' = Some(filter_target_growth(view_input, min_growth, max_growth))
          /\ view_args' = [view_args EXCEPT !.min_growth = min_growth,
                                            !.max_growth = max_growth]
    /\ UNCHANGED <<view_input, quality_view, fetchVars, adapterVars, consVars, runVars,
                   poolVars, scoreVars, extractVars>>

\* process_stock_tips(all_stock_tips): the list is deduplicated and both
\* views are made of the deduplicated list, with the default arguments
ProcessStockTips ==
    /\ quality_view = None
    /\ growth_view = None
    /\ LET deduplicated == deduplicate_stock_tips(view_input)
       IN /\ view_input' = deduplicated
          /\ quality_view' = Some(filter_quality_tips(deduplicated, DefaultArgs.min_confidence))
          /\ growth_view' = Some(filter_target_growth(deduplicated, DefaultArgs.min_growth,
                                                      DefaultArgs.max_growth))
    /\ UNCHANGED <<view_args, fetchVars, adapterVars, consVars, runVars, poolVars,
                   scoreVars, extractVars>>

NextViews ==
    \/ FilterQuality
    \/ FilterTargetGrowth
    \/ ProcessStockTips

SpecViews == InitViews /\ [][NextViews]_vars

----------------------------------------------------------------------------
(* base_scraper.py: extract_stock_details                                  *)
(*                                                                         *)
(* A text is a sequence of tokens and a token is a sequence of characters: *)
(* a word (a maximal run of letters and digits) or one other character.    *)
(* The regular expressions are read token by token.  In the texts of the   *)
(* model a label and the number after it are separate tokens, a label is   *)
(* the end of its word, and a company name begins and ends at the start    *)
(* and end of a word.                                                      *)

UpperSeq ==
    <<"A", "B", "C", "D", "E", "F", "G", "H", "I", "J", "K", "L", "M",
      "N", "O", "P", "Q", "R", "S", "T", "U", "V", "W", "X", "Y", "Z">>

LowerSeq ==
    <<"a", "b", "c", "d", "e", "f", "g", "h", "i", "j", "k", "l", "m",
      "n", "o", "p", "q", "r", "s", "t", "u", "v", "w", "x", "y", "z">>

UpperChars == { UpperSeq[i] : i \in 1..Len(UpperSeq) }
LowerChars == { LowerSeq[i] : i \in 1..Len(LowerSeq) }

\* str.lower() of one character
lower_char(c) ==
    IF c \in UpperChars THEN LowerSeq[CHOOSE i \in 1..Len(UpperSeq) : UpperSeq[i] = c] ELSE c

\* str.lower() of a token and of a text
lower_token(tok) == [i \in 1..Len(tok) |-> lower_char(tok[i])]
lower(text) == [i \in 1..Len(text) |-> lower_token(text[i])]

\* The words of the patterns and of the texts, as tokens
Word ==
    [BSE |-> <<"B", "S", "E">>,
     BUY |-> <<"B", "U", "Y">>,
     Buy |-> <<"B", "u", "y">>,
     CMP |-> <<"C", "M", "P">>,
     Corp |-> <<"C", "o", "r", "p">>,
     Corporation |-> <<"C", "o", "r", "p", "o", "r", "a", "t", "i", "o", "n">>,
     FOR |-> <<"F", "O", "R">>,
     HOLD |-> <<"H", "O", "L", "D">>,
     Hold |-> <<"H", "o", "l", "d">>,
     IDEA2 |-> <<"I", "D", "E", "A", "2">>,
     INFY |-> <<"I", "N", "F", "Y">>,
     INR |-> <<"I", "N", "R">>,
     Inc |-> <<"I", "n", "c">>,
     Incorporated |-> <<"I", "n", "c", "o", "r", "p", "o", "r", "a", "t", "e", "d">>,
     Infosys |-> <<"I", "n", "f", "o", "s", "y", "s">>,
     LTD |-> <<"L", "T", "D">>,
     Limited |-> <<"L", "i", "m", "i", "t", "e", "d">>,
     Ltd |-> <<"L", "t", "d">>,
     MRP |-> <<"M", "R", "P">>,
     Motors |-> <<"M", "o", "t", "o", "r", "s">>,
     NSE |-> <<"N", "S", "E">>,
     Private |-> <<"P", "r", "i", "v", "a", "t", "e">>,
     Pvt |-> <<"P", "v", "t">>,
     Rs |-> <<"R", "s">>,
     SELL |-> <<"S", "E", "L", "L">>,
     SL |-> <<"S", "L">>,
     Sell |-> <<"S", "e", "l", "l">>,
     TCS |-> <<"T", "C", "S">>,
     TGT |-> <<"T", "G", "T">>,
     THE |-> <<"T", "H", "E">>,
     TP |-> <<"T", "P">>,
     Target |-> <<"T", "a", "r", "g", "e", "t">>,
     Tata |-> <<"T", "a", "t", "a">>,
     accumulate |-> <<"a", "c", "c", "u", "m", "u", "l", "a", "t", "e">>,
     at |-> <<"a", "t">>,
     bearish |-> <<"b", "e", "a", "r", "i", "s", "h">>,
     bullish |-> <<"b", "u", "l", "l", "i", "s", "h">>,
     buy |-> <<"b", "u", "y">>,
     cmp |-> <<"c", "m", "p">>,
     current |-> <<"c", "u", "r", "r", "e", "n", "t">>,
     hold |-> <<"h", "o", "l", "d">>,
     increase |-> <<"i", "n", "c", "r", "e", "a", "s", "e">>,
     infy |-> <<"i", "n", "f", "y">>,
     is |-> <<"i", "s">>,
     loss |-> <<"l", "o", "s", "s">>,
     market |-> <<"m", "a", "r", "k", "e", "t">>,
     n1 |-> <<"1">>,
     n1500 |-> <<"1", "5", "0", "0">>,
     n1600 |-> <<"1", "6", "0", "0">>,
     n1800 |-> <<"1", "8", "0", "0">>,
     n800 |-> <<"8", "0", "0">>,
     neutral |-> <<"n", "e", "u", "t", "r", "a", "l">>,
     price |-> <<"p", "r", "i", "c", "e">>,
     priced |-> <<"p", "r", "i", "c", "e", "d">>,
     reduce |-> <<"r", "e", "d", "u", "c", "e">>,
     sell |-> <<"s", "e", "l", "l">>,
     share |-> <<"s", "h", "a", "r", "e">>,
     shares |-> <<"s", "h", "a", "r", "e", "s">>,
     sl |-> <<"s", "l">>,
     stock |-> <<"s", "t", "o", "c", "k">>,
     stop |-> <<"s", "t", "o", "p">>,
     stoploss |-> <<"s", "t", "o", "p", "l", "o", "s", "s">>,
     symbol |-> <<"s", "y", "m", "b", "o", "l">>,
     target |-> <<"t", "a", "r", "g", "e", "t">>,
     ticker |-> <<"t", "i", "c", "k", "e", "r">>,
     to |-> <<"t", "o">>,
     tp |-> <<"t", "p">>,
     trading |-> <<"t", "r", "a", "d", "i", "n", "g">>,
     upside |-> <<"u", "p", "s", "i", "d", "e">>,
     was |-> <<"w", "a", "s">>]

SP == <<" ">>

\* \w, and the characters clean_text keeps besides \w and \s (line 42)
WordChars == UpperChars \cup LowerChars \cup DigitChars
KeptChars == {".", ",", ":", ";", "-", "$", "%", "(", ")", "Rs_sign"}

\* The rupee sign, one character
RUPEE == <<"Rs_sign">>

IsWord(tok) == \A i \in 1..Len(tok) : tok[i] \in WordChars
IsLetters(tok) == \A i \in 1..Len(tok) : tok[i] \in UpperChars \cup LowerChars
IsDigits(tok) == \A i \in 1..Len(tok) : tok[i] \in DigitChars

\* re.sub(r'\s+', ' ', text): a run of spaces becomes one space
RECURSIVE CollapseSpaces(_)
CollapseSpaces(text) ==
    IF Len(text) < 2 THEN text
    ELSE IF text[1] = SP /\ text[2] = SP THEN CollapseSpaces(Tail(text))
    ELSE <<Head(text)>> \o CollapseSpaces(Tail(text))

\* str.strip()
RECURSIVE Strip(_)
Strip(text) ==
    IF text = <<>> THEN <<>>
    ELSE IF Head(text) = SP THEN Strip(Tail(text))
    ELSE IF text[Len(text)] = SP THEN Strip(SubSeq(text, 1, Len(text) - 1))
    ELSE text

\* Lines 33-43: the spaces are collapsed first, then every character that
\* is not kept becomes a space, then the ends are stripped
clean_text(text) ==
    LET collapsed == CollapseSpaces(text)
        kept(tok) == IF IsWord(tok) \/ tok = SP \/ tok[1] \in KeptChars THEN tok ELSE SP
    IN Strip([i \in 1..Len(collapsed) |-> kept(collapsed[i])])

\* The text as one string
RECURSIVE Join(_)
Join(text) == IF text = <<>> THEN <<>> ELSE Head(text) \o Join(Tail(text))

\* tok ends with lit, begins with lit, has lit inside
EndsWith(tok, lit) ==
    Len(tok) >= Len(lit) /\ SubSeq(tok, Len(tok) - Len(lit) + 1, Len(tok)) = lit
StartsWith(tok, lit) == Len(tok) >= Len(lit) /\ SubSeq(tok, 1, Len(lit)) = lit
HasSubstring(tok, lit) ==
    \E k \in 1..Len(tok) : k + Len(lit) - 1 <= Len(tok) /\ SubSeq(tok, k, k + Len(lit) - 1) = lit

\* The index of the first token at or after i that is not a space
RECURSIVE SkipSpaces(_, _)
SkipSpaces(text, i) ==
    IF i <= Len(text) /\ text[i] = SP THEN SkipSpaces(text, i + 1) ELSE i

\* The Some(...) of a sequence of options, in order
Somes(options) ==
    LET present == SelectSeq(options, LAMBDA o : o # None)
    IN [i \in 1..Len(present) |-> Val(present[i])]

\* The number of leading capital letters of a token
RECURSIVE UpperPrefix(_)
UpperPrefix(tok) ==
    IF tok # <<>> /\ Head(tok) \in UpperChars THEN 1 + UpperPrefix(Tail(tok)) ELSE 0

\* \b[A-Z]{2,5}\b
IsBareSymbol(tok) == Len(tok) \in 2..5 /\ UpperPrefix(tok) = Len(tok)

\* \b[A-Z]{2,5}[0-9]{1,2}\b
IsDigitSymbol(tok) ==
    LET letters == UpperPrefix(tok)
    IN /\ letters \in 2..5
       /\ Len(tok) - letters \in 1..2
       /\ IsDigits(SubSeq(tok, letters + 1, Len(tok)))

\* Line 162: r'\b([A-Z]{2,5})\b(?:\s*(?:NSE|BSE))?'; an exchange name after
\* the symbol belongs to the match and is not a match of its own
RECURSIVE BareSymbols(_, _)
BareSymbols(text, i) ==
    IF i > Len(text) THEN <<>>
    ELSE IF IsBareSymbol(text[i])
    THEN LET j == SkipSpaces(text, i + 1)
             exchange == /\ j <= Len(text)
                         /\ (StartsWith(text[j], Word.NSE) \/ StartsWith(text[j], Word.BSE))
         IN <<text[i]>> \o BareSymbols(text, IF exchange THEN j + 1 ELSE i + 1)
    ELSE BareSymbols(text, i + 1)

\* Line 163: r'\b([A-Z]{2,5}[0-9]{1,2})\b'
DigitSymbols(text) == SelectSeq(text, IsDigitSymbol)

\* Lines 164-165: r'NSE[:/]([A-Z]{2,5})\b' and r'BSE[:/]([A-Z]{2,5})\b'
ExchangeSymbols(text, exchange) ==
    Somes([i \in 1..Len(text) |->
              IF /\ EndsWith(text[i], exchange)
                 /\ i + 2 <= Len(text)
                 /\ text[i + 1] \in {<<":">>, <<"/">>}
                 /\ IsBareSymbol(text[i + 2])
              THEN Some(text[i + 2]) ELSE None])

\* The index of the first token at or after i that is neither ':' nor a space
RECURSIVE SkipSeparators(_, _)
SkipSeparators(text, i) ==
    IF i <= Len(text) /\ text[i] \in {SP, <<":">>} THEN SkipSeparators(text, i + 1) ELSE i

\* Line 166: r'(?:stock|ticker|symbol)[:\s]+([A-Z]{2,5})'
NamedSymbols(text) ==
    Somes([i \in 1..Len(text) |->
              LET j == SkipSeparators(text, i + 1)
              IN IF /\ \E label \in {Word.stock, Word.ticker, Word.symbol} :
                          EndsWith(text[i], label)
                    /\ j > i + 1
                    /\ j <= Len(text)
                    /\ UpperPrefix(text[j]) >= 2
                 THEN Some(SubSeq(text[j], 1, Min(UpperPrefix(text[j]), 5))) ELSE None])

\* Line 172: the words that are never a symbol
SymbolStopList ==
    {Word.NSE, Word.BSE, Word.BUY, Word.SELL, Word.CMP, Word.HOLD, Word.SL, Word.TGT, Word.MRP,
     Word.INR, Word.THE, Word.FOR, Word.LTD}

\* Lines 161-167: the patterns in the order in which they are tried
symbol_patterns == <<"bare", "digits", "nse", "bse", "named">>

\* re.findall(pattern, text_cleaned)
SymbolMatches(pattern, text) ==
    CASE pattern = "bare" -> BareSymbols(text, 1)
      [] pattern = "digits" -> DigitSymbols(text)
      [] pattern = "nse" -> ExchangeSymbols(text, Word.NSE)
      [] pattern = "bse" -> ExchangeSymbols(text, Word.BSE)
      [] pattern = "named" -> NamedSymbols(text)

\* Lines 170-176: the first match that is not stop-listed, of the first
\* pattern that has one
RECURSIVE FirstSymbol(_, _)
FirstSymbol(patterns, text) ==
    IF patterns = <<>> THEN None
    ELSE LET filtered_symbols == Without(SymbolMatches(Head(patterns), text), SymbolStopList)
         IN IF filtered_symbols # <<>> THEN Some(filtered_symbols[1])
            ELSE FirstSymbol(Tail(patterns), text)

\* [a-zA-Z\s]: a word of letters, or a space
IsNamePart(tok) == tok = SP \/ IsLetters(tok)

\* The last token of the run of name parts that begins at token i
RECURSIVE NameRunEnd(_, _)
NameRunEnd(text, i) ==
    IF i <= Len(text) /\ IsNamePart(text[i]) THEN NameRunEnd(text, i + 1) ELSE i - 1

\* A word of letters that begins with a capital letter
IsNameStart(tok) == IsLetters(tok) /\ tok[1] \in UpperChars

\* (?:Ltd|Limited|Corp|Corporation|Pvt|Private|Inc|Incorporated), in the
\* order in which the alternatives are tried
CompanySuffixes ==
    <<Word.Ltd, Word.Limited, Word.Corp, Word.Corporation, Word.Pvt, Word.Private, Word.Inc,
      Word.Incorporated>>

\* The first alternative a token begins with
SuffixAt(tok) == FirstOrNone(SelectSeq(CompanySuffixes, LAMBDA sfx : StartsWith(tok, sfx)))

\* Line 182: r'([A-Z][a-zA-Z\s]+(?:Ltd|...|Incorporated))' matched from token
\* i; the match is greedy and ends with the last suffix of the run
SuffixedNameAt(text, i) ==
    IF ~IsNameStart(text[i]) THEN None
    ELSE LET ends == { j \in (i + 1)..NameRunEnd(text, i) : SuffixAt(text[j]) # None }
         IN IF ends = {} THEN None
            ELSE LET j == CHOOSE j \in ends : \A k \in ends : k <= j
                 IN Some(Join(SubSeq(text, i, j - 1)) \o Val(SuffixAt(text[j])))

\* Line 183: r'([A-Z][a-zA-Z\s]{3,})\s+(?:shares|stock)' matched from token i,
\* and the strip() of line 188
SharesNameAt(text, i) ==
    IF ~IsNameStart(text[i]) THEN None
    ELSE LET ends == { m \in (i + 2)..Min(NameRunEnd(text, i) + 1, Len(text)) :
                          /\ text[m - 1] = SP
                          /\ StartsWith(text[m], Word.shares) \/ StartsWith(text[m], Word.stock)
                          /\ Len(Join(SubSeq(text, i, m - 1))) >= 5 }
         IN IF ends = {} THEN None
            ELSE LET m == CHOOSE m \in ends : \A k \in ends : k <= m
                 IN Some(Join(Strip(SubSeq(text, i, m - 1))))

\* [A-Z][a-z]+
IsCapitalized(tok) ==
    Len(tok) >= 2 /\ tok[1] \in UpperChars /\ \A k \in 2..Len(tok) : tok[k] \in LowerChars

\* The last word of the run of capitalized words that begins at token i
RECURSIVE CapitalizedRunEnd(_, _)
CapitalizedRunEnd(text, i) ==
    LET j == SkipSpaces(text, i + 1)
    IN IF j > i + 1 /\ j <= Len(text) /\ IsCapitalized(text[j])
       THEN CapitalizedRunEnd(text, j) ELSE i

\* Line 194: r'([A-Z][a-z]+(?:\s+[A-Z][a-z]+){2,})' matched from token i
CapitalNameAt(text, i) ==
    IF ~IsCapitalized(text[i]) THEN None
    ELSE LET j == CapitalizedRunEnd(text, i)
             words == Cardinality({ k \in i..j : text[k] # SP })
         IN IF words >= 3 THEN Some(Join(SubSeq(text, i, j))) ELSE None

\* re.findall(pattern, text_cleaned) of the three patterns
SuffixedNames(text) == Somes([i \in 1..Len(text) |-> SuffixedNameAt(text, i)])
SharesNames(text) == Somes([i \in 1..Len(text) |-> SharesNameAt(text, i)])
CapitalNames(text) == Somes([i \in 1..Len(text) |-> CapitalNameAt(text, i)])

\* Lines 179-196: a company name is looked for only when no symbol was found
CompanyName(text, symbol) ==
    IF symbol # None THEN None
    ELSE IF SuffixedNames(text) # <<>> THEN Some(SuffixedNames(text)[1])
    ELSE IF SharesNames(text) # <<>> THEN Some(SharesNames(text)[1])
    ELSE FirstOrNone(CapitalNames(text))

\* The leading digits of a token
RECURSIVE DigitPrefix(_)
DigitPrefix(tok) ==
    IF tok # <<>> /\ Head(tok) \in DigitChars THEN <<Head(tok)>> \o DigitPrefix(Tail(tok)) ELSE <<>>

IsNumberPart(tok) == IsDigits(tok) \/ tok \in {<<",">>, <<".">>}

\* ([0-9,.]+) read from token i: what is captured
RECURSIVE NumberAt(_, _)
NumberAt(text, i) ==
    IF i > Len(text) THEN <<>>
    ELSE IF IsNumberPart(text[i]) THEN text[i] \o NumberAt(text, i + 1)
    ELSE DigitPrefix(text[i])

\* The index of the token after the number that begins at token i
RECURSIVE NumberEnd(_, _)
NumberEnd(text, i) ==
    IF i <= Len(text) /\ IsNumberPart(text[i]) THEN NumberEnd(text, i + 1) ELSE i

\* (?:Rs\.?|₹)? read from token j: the index of the token after it
CurrencyEnd(text, j) ==
    IF j > Len(text) THEN j
    ELSE IF text[j] = RUPEE THEN j + 1
    ELSE IF text[j] = Word.Rs
    THEN IF j + 1 <= Len(text) /\ text[j + 1] = <<".">> THEN j + 2 ELSE j + 1
    ELSE j

\* (?:Rs\.?|₹)?\s*([0-9,.]+) read from token j: what is captured, None when
\* there is no match; a '.' after Rs is given back to the number when nothing
\* else can be captured
AmountAt(text, j) ==
    LET number == NumberAt(text, SkipSpaces(text, CurrencyEnd(text, j)))
        given_back == IF j <= Len(text) /\ text[j] = Word.Rs
                      THEN NumberAt(text, j + 1) ELSE <<>>
    IN IF number # <<>> THEN Some(number)
       ELSE IF given_back # <<>> THEN Some(given_back)
       ELSE None

\* The index of the last token at or before i that is not a space
RECURSIVE SkipSpacesBack(_, _)
SkipSpacesBack(text, i) ==
    IF i >= 1 /\ text[i] = SP THEN SkipSpacesBack(text, i - 1) ELSE i

\* A label is its words and whether one space (' ') or any run of spaces
\* (\s+, \s*) stands between them
Label(words, one_space) == [words |-> words, one_space |-> one_space]

\* The label ends with token i: its first word is the end of a token, the
\* other words are tokens
RECURSIVE LabelEndsAt(_, _, _)
LabelEndsAt(text, i, label) ==
    LET words == label.words
        before == SkipSpacesBack(text, i - 1)
    IN IF i < 1 THEN FALSE
       ELSE IF Len(words) = 1 THEN EndsWith(text[i], words[1])
       ELSE /\ text[i] = words[Len(words)]
            /\ before < i - 1
            /\ label.one_space => before = i - 2
            /\ LabelEndsAt(text, before, Label(SubSeq(words, 1, Len(words) - 1), label.one_space))

\* re.findall of a pattern made of labels, [:\s]*, and the amount
LabelFirst(text, labels) ==
    Somes([i \in 1..Len(text) |->
              IF \E label \in labels : LabelEndsAt(text, i, label)
              THEN AmountAt(text, SkipSeparators(text, i + 1)) ELSE None])

\* re.findall of a pattern made of labels, \s+, and the amount
LabelSpaceFirst(text, labels) ==
    Somes([i \in 1..Len(text) |->
              IF /\ \E label \in labels : LabelEndsAt(text, i, label)
                 /\ i + 1 <= Len(text)
                 /\ text[i + 1] = SP
              THEN AmountAt(text, SkipSpaces(text, i + 1)) ELSE None])

\* The label begins with token i: its last word is the beginning of a token
RECURSIVE LabelBeginsAt(_, _, _)
LabelBeginsAt(text, i, label) ==
    LET words == label.words
        after == SkipSpaces(text, i + 1)
    IN IF i > Len(text) THEN FALSE
       ELSE IF Len(words) = 1 THEN StartsWith(text[i], words[1])
       ELSE /\ text[i] = words[1]
            /\ after > i + 1
            /\ label.one_space => after = i + 2
            /\ LabelBeginsAt(text, after, Label(Tail(words), label.one_space))

\* re.findall of a pattern made of the currency sign, the number, \s* and
\* labels; whole_words are the labels that stand between \b
CurrencyFirst(text, labels, whole_words) ==
    Somes([i \in 1..Len(text) |->
              LET k == SkipSpaces(text, CurrencyEnd(text, i))
                  f == SkipSpaces(text, NumberEnd(text, k))
              IN IF /\ CurrencyEnd(text, i) > i
                    /\ NumberEnd(text, k) > k
                    /\ f <= Len(text)
                    /\ \/ \E label \in labels : LabelBeginsAt(text, f, label)
                       \/ text[f] \in whole_words
                 THEN Some(Join(SubSeq(text, k, NumberEnd(text, k) - 1))) ELSE None])

\* Every way to say a label whose words are drawn from sets
Phrases(choices, one_space) ==
    { Label(words, one_space) :
        words \in { ws \in [1..Len(choices) -> UNION { choices[i] : i \in 1..Len(choices) }] :
                      \A i \in 1..Len(choices) : ws[i] \in choices[i] } }

\* Lines 199-203
cmp_patterns(text) ==
    <<LabelFirst(text, {Label(<<Word.CMP>>, FALSE),
                        Label(<<Word.current, Word.market, Word.price>>, FALSE),
                        Label(<<Word.current, Word.price>>, FALSE),
                        Label(<<Word.trading, Word.at>>, FALSE),
                        Label(<<Word.price>>, FALSE)}),
      CurrencyFirst(text, {Label(<<Word.CMP>>, FALSE), Label(<<Word.current>>, FALSE)},
                    {Word.at}),
      LabelSpaceFirst(text, Phrases(<<{Word.stock, Word.share}, {Word.is, Word.was},
                                      {Word.trading, Word.priced}, {Word.at}>>, FALSE))>>

\* Lines 212-216
target_patterns(text) ==
    <<LabelFirst(text, {Label(<<Word.target>>, TRUE),
                        Label(<<Word.price, Word.target>>, TRUE),
                        Label(<<Word.target, Word.price>>, TRUE),
                        Label(<<Word.tp>>, TRUE)}),
      CurrencyFirst(text, {Label(<<Word.target>>, TRUE),
                           Label(<<Word.price, Word.target>>, TRUE)}, {}),
      LabelSpaceFirst(text, Phrases(<<{Word.upside, Word.increase}, {Word.to}>>, TRUE))>>

\* Lines 227-230
sl_patterns(text) ==
    <<LabelFirst(text, {Label(<<Word.stop, Word.loss>>, FALSE),
                        Label(<<Word.stoploss>>, FALSE),
                        Label(<<Word.sl>>, FALSE)}),
      CurrencyFirst(text, {Label(<<Word.stop, Word.loss>>, FALSE),
                           Label(<<Word.stoploss>>, FALSE),
                           Label(<<Word.sl>>, FALSE)}, {})>>

\* The matches of the first pattern that has any (the loops of lines
\* 205-209, 218-224 and 232-238)
RECURSIVE FirstMatches(_)
FirstMatches(match_lists) ==
    IF match_lists = <<>> THEN <<>>
    ELSE IF Head(match_lists) # <<>> THEN Head(match_lists)
    ELSE FirstMatches(Tail(match_lists))

\* 'word' in text_lower, for one of the words
HasAny(text, lits) == \E i \in 1..Len(text) : \E lit \in lits : HasSubstring(text[i], lit)

\* Lines 241-256; explicit is FALSE for the default 'buy'
RecommendationOf(text_lower) ==
    IF HasAny(text_lower, {Word.buy, Word.bullish, Word.accumulate})
    THEN [rec_type |-> "buy", explicit |-> TRUE]
    ELSE IF HasAny(text_lower, {Word.sell, Word.bearish, Word.reduce})
    THEN [rec_type |-> "sell", explicit |-> TRUE]
    ELSE IF HasAny(text_lower, {Word.hold, Word.neutral})
    THEN [rec_type |-> "hold", explicit |-> TRUE]
    ELSE [rec_type |-> "buy", explicit |-> FALSE]

\* Lines 139-269 (source, url, date and raw_text, which no test reads, are
\* left out).  The price patterns are matched against text_lower, the symbol
\* and company patterns against text_cleaned.
extract_stock_details(text) ==
    LET text_cleaned == clean_text(text)
        text_lower == lower(text_cleaned)
        symbol == FirstSymbol(symbol_patterns, text_cleaned)
        cmp_matches == FirstMatches(cmp_patterns(text_lower))
        target_matches == FirstMatches(target_patterns(text_lower))
        sl_matches == FirstMatches(sl_patterns(text_lower))
        entry_price == clean_price(FirstOrNone(cmp_matches))
        target_price == clean_price(FirstOrNone(target_matches))
        rec == RecommendationOf(text_lower)
        growth_percent == GrowthOf(entry_price, target_price)
    IN [symbol |-> symbol,
        company_name |-> CompanyName(text_cleaned, symbol),
        entry_price |-> entry_price,
        target_price |-> target_price,
        stop_loss |-> clean_price(FirstOrNone(sl_matches)),
        growth_percent |-> growth_percent,
        recommendation_type |-> rec.rec_type,
        confidence |-> ExtractConfidence(target_matches # <<>>, sl_matches # <<>>,
                                         rec.explicit, growth_percent)]

\* The texts: a beginning, a name, and what is said of the target, of the
\* current price and of the stop loss
TextHeads ==
    {<<>>,
     <<Word.Buy, SP>>,
     <<Word.BUY, SP>>,
     <<Word.TCS, SP, Word.buy, SP>>,
     <<Word.Sell, SP>>,
     <<Word.Hold, <<"!">>, SP>>}

TextNames ==
    {<<Word.INFY>>,
     <<Word.NSE, <<":">>, Word.INFY>>,
     <<Word.symbol, <<":">>, SP, Word.INFY>>,
     <<Word.IDEA2>>,
     <<Word.Tata, SP, Word.Motors, SP, Word.Ltd>>,
     <<Word.Infosys, SP, Word.shares>>,
     <<Word.infy>>}

TextTargets ==
    {<<>>,
     <<<<",">>, SP, Word.target, SP, Word.n1800>>,
     <<<<",">>, SP, Word.Target, <<":">>, SP, Word.n1800>>,
     <<<<",">>, SP, Word.TP, SP, Word.n1, <<",">>, Word.n800>>,
     <<<<",">>, SP, Word.target, SP, Word.price, SP, RUPEE, Word.n1800>>}

TextEntries ==
    {<<>>,
     <<<<",">>, SP, Word.CMP, SP, Word.n1600>>,
     <<<<",">>, SP, Word.cmp, SP, Word.n1600>>,
     <<<<",">>, SP, Word.price, SP, Word.n1600>>,
     <<<<",">>, SP, Word.trading, SP, Word.at, SP, Word.Rs, <<".">>, SP, Word.n1600>>,
     <<<<",">>, SP, RUPEE, Word.n1600, SP, Word.at>>}

TextStops ==
    {<<>>,
     <<<<",">>, SP, Word.SL, SP, Word.n1500>>,
     <<SP, Word.stop, SP, Word.loss, SP, Word.n1500>>}

ExtractTexts ==
    { head \o name \o target \o entry \o stop :
        head \in TextHeads, name \in TextNames, target \in TextTargets,
        entry \in TextEntries, stop \in TextStops }

\* A text is at hand
InitExtract ==
    /\ use_rotating_agents = TRUE
    /\ use_random_delays = TRUE
    /\ InitManager
    /\ IdleAdapter
    /\ IdleCons
    /\ IdleRun
    /\ IdlePool
    /\ IdleScore
    /\ IdleViews
    /\ raw_text \in ExtractTexts
    /\ details = None

\* extract_stock_details(text)
Extract ==
    /\ details = None
    /\ details' = Some(extract_stock_details(raw_text))
    /\ UNCHANGED <<raw_text, fetchVars, adapterVars, consVars, runVars, poolVars, scoreVars,
                   viewVars>>

NextExtract == Extract

SpecExtract == InitExtract /\ [][NextExtract]_vars

----------------------------------------------------------------------------
(* Reading the log of a fetch *)

GetEvents == {"get", "get_raised"}
SleepEvents == {"captcha_sleep", "block_sleep", "backoff_sleep"}

\* The primary requests issued so far
NumGets == Cardinality({ i \in 1..Len(log) : log[i].ev \in GetEvents })

\* The index of the last primary request that was answered by a response
LastAnswered ==
    LET S == { i \in 1..Len(log) : log[i].ev = "get" }
    IN IF S = {} THEN 0 ELSE CHOOSE i \in S : \A j \in S : j <= i

\* The index of the last primary request, answered or not
LastRequest ==
    LET S == { i \in 1..Len(log) : log[i].ev \in GetEvents }
    IN IF S = {} THEN 0 ELSE CHOOSE i \in S : \A j \in S : j <= i

Finished == pc \in {"done", "returned"}

----------------------------------------------------------------------------
(* C1 *)

\* C1: whatever the URL, the retries value and the answers of the server
\* (statuses, soft-block pages, network exceptions, a failing warm-up), no
\* exception leaves fetch_with_anti_blocking, and a finished fetch has
\* returned a (success, content, status_code) tuple.
C1_NeverRaises ==
    /\ raised = None
    /\ pc # "raised"
    /\ Finished => /\ outcome # None
                   /\ DOMAIN Val(outcome) = {"success", "content", "status_code"}
                   /\ Val(outcome).success \in BOOLEAN

\* A fetch whose warm-up failed and whose primary request raised has returned.
C1_Witness ==
    /\ pc = "done"
    /\ \E i \in 1..Len(log) : log[i].ev = "warmup_failed"
    /\ \E i \in 1..Len(log) : log[i].ev = "get_raised"
    /\ log[Len(log)].ev = "get_raised"

----------------------------------------------------------------------------
(* C2 *)

\* C2: when every attempt of a fetch receives HTTP 429 and the attempt budget
\* is exhausted, the fetch returns success = false and status_code = 429.
C2_All429Returns429 ==
    (/\ pc = "done"
     /\ retries_count >= 1
     /\ NumGets = retries_count
     /\ \A i \in 1..Len(log) : log[i].ev \in GetEvents => log[i] = Event("get", 429))
    => /\ Val(outcome).success = FALSE
       /\ Val(outcome).status_code = Some(429)

----------------------------------------------------------------------------
(* C3 *)

\* The soft-block page as C3 words it
C3_SmallChallenge(r) ==
    /\ r.status = 200
    /\ r.body.len < 500
    /\ r.body.word \in {"captcha", "CAPTCHA", "Robot"}

\* C3: a 200 response shorter than 500 characters that contains 'captcha' or
\* 'robot' in any case is never returned as a success; it consumes one
\* attempt (a backoff sleep follows it in the log) and, while attempts
\* remain, the next thing the fetch does is another request.
C3_SoftBlockRetried ==
    /\ (Finished /\ Val(outcome).success) =>
          /\ response # None
          /\ ~C3_SmallChallenge(Val(response))
    /\ (response # None /\ C3_SmallChallenge(Val(response))) =>
          /\ LastAnswered > 0
          /\ LastAnswered < Len(log)
          /\ log[LastAnswered + 1].ev = "captcha_sleep"
    /\ \A i \in 1..Len(log) : log[i].ev = "captcha_sleep" =>
          /\ i > 1
          /\ log[i - 1] = Event("get", 200)
          /\ i < Len(log) => log[i + 1].ev \in GetEvents
          /\ i = Len(log) =>
                \/ pc = "loop" /\ attempt = NumGets
                \/ Finished /\ NumGets = retries_count /\ ~Val(outcome).success

\* A soft-block page was answered by a retry that then succeeded.
C3_Witness ==
    /\ pc = "done"
    /\ Val(outcome).success
    /\ \E i \in 1..Len(log) : log[i].ev = "captcha_sleep"

----------------------------------------------------------------------------
(* C4 *)

\* C4: a response whose status is none of 200, 403 and 429 ends the call at
\* once: it is the last event of the log (no further request, no sleep) and
\* the outcome is a failure carrying that status, however many attempts remain.
C4_OtherStatusIsTerminal ==
    \A i \in 1..Len(log) :
        (log[i].ev = "get" /\ log[i].n \notin {200, 403, 429}) =>
            /\ i = Len(log)
            /\ Finished
            /\ Val(outcome).success = FALSE
            /\ Val(outcome).status_code = Some(log[i].n)

\* A 404 ended a fetch after one retry, with attempts to spare.
C4_Witness ==
    /\ pc = "done"
    /\ Len(log) > 0
    /\ log[Len(log)] = Event("get", 404)
    /\ NumGets = 2
    /\ retries_count = 3

----------------------------------------------------------------------------
(* C5 *)

C5_Bounded ==
    /\ NumGets <= retries_count
    /\ attempt <= retries_count
    /\ (/\ Finished
        /\ ~Val(outcome).success
        /\ Val(outcome).status_code = None) =>
          /\ Val(outcome).content # None
          /\ Val(Val(outcome).content).kind \in {"Max retries exceeded", "Request Error"}
          /\ Val(Val(outcome).content).kind = "Request Error"
                <=> (LastRequest > 0 /\ log[LastRequest].ev = "get_raised")
          /\ Val(Val(outcome).content).kind = "Request Error" => NumGets = retries_count
    /\ (Finished /\ Val(outcome).status_code # None) =>
          /\ Len(log) > 0
          /\ log[Len(log)].ev = "get"
          /\ log[Len(log)].n \notin {403, 429}

\* Every step of the attempt loop either returns or uses up one attempt
C5_Progress ==
    pc = "loop" =>
        \/ pc' \in {"done", "raised"}
        \/ pc' = "loop" /\ attempt' = attempt + 1 /\ attempt' <= retries_count

\* C5: for a retries value n >= 0 the fetch issues at most n primary requests
\* and terminates (each step of the loop returns or uses up one of the n
\* attempts); when no attempt ended in a success or a terminal failure the
\* outcome is a failure, "Max retries exceeded", or the error text when the
\* last attempt raised a network exception.
C5_AtMostNRequests == []C5_Bounded /\ [][C5_Progress]_vars

\* Three attempts were all used up and the fetch returned "Max retries exceeded".
C5_Witness ==
    /\ pc = "done"
    /\ retries = Some(3)
    /\ NumGets = 3
    /\ Val(outcome).content = Some(MaxRetriesText)

----------------------------------------------------------------------------
(* C6 *)

\* C6: a returned outcome is either a success with a body and the status 200,
\* or a failure with an error description; fetch_content_with_ab hands the
\* body of a success to its caller and None for a failure.
C6_OutcomeShapes ==
    /\ outcome # None =>
          \/ /\ Val(outcome).success
             /\ Val(outcome).content # None
             /\ Val(Val(outcome).content).kind = "body"
             /\ Val(outcome).status_code = Some(200)
          \/ /\ ~Val(outcome).success
             /\ Val(outcome).content # None
             /\ Val(Val(outcome).content).kind \in
                   {"HTTP Error", "Request Error", "Max retries exceeded"}
    /\ pc = "returned" =>
          html_content = IF Val(outcome).success THEN Val(outcome).content ELSE None

\* Both shapes were returned: a success, and a failure after exhaustion.
C6_Witness ==
    /\ pc = "returned"
    /\ ~Val(outcome).success
    /\ Val(outcome).content = Some(MaxRetriesText)
    /\ html_content = None
    /\ retries_count > 0

----------------------------------------------------------------------------
(* Reading the result of an adapter *)

\* The leads the adapter returned
Returned == IF stock_tips = None THEN <<>> ELSE Val(stock_tips)

----------------------------------------------------------------------------
(* C7 *)

\* C7: no lead returned by a registered adapter has both target_price and
\* stop_loss present with target_price <= stop_loss.
C7_NoTargetAtOrBelowStop ==
    \A i \in 1..Len(Returned) :
        ~(/\ Returned[i].target_price # None
          /\ Returned[i].stop_loss # None
          /\ Val(Returned[i].target_price) <= Val(Returned[i].stop_loss))

----------------------------------------------------------------------------
(* C8 *)

\* C8: no lead returned by a registered adapter has both symbol and
\* company_name absent (None or empty).
C8_LeadIsNamed ==
    \A i \in 1..Len(Returned) :
        TruthyStr(Returned[i].symbol) \/ TruthyStr(Returned[i].company_name)

\* A fragment without any name that carries both prices and is neither
\* skipped nor raising
C8_Nameless(f) ==
    /\ f.name \in {None, Some("")}
    /\ f.cmp = Some(Text.p100)
    /\ f.target = Some(Text.p110)
    /\ ~f.skip
    /\ ~f.raises

\* An adapter has read a page with a priced, nameless card and returned
\* nothing for it, and has read a page with a nameless fragment next to a
\* named one and returned the named one only
C8_Witness ==
    /\ stock_tips # None
    /\ \E i \in 1..Len(page.cards) : C8_Nameless(page.cards[i])
    /\ source \in {"moneycontrol", "5paisa"}
    /\ page.tables = <<>>
    /\ Len(page.cards) = 2
    /\ Len(Returned) = 1
    /\ Returned[1].symbol = None
    /\ Returned[1].company_name = Some("Tata Motors Ltd")

----------------------------------------------------------------------------
(* Reading the result of a deduplication *)

\* The flat list deduplicate_stock_tips was given
all_tips == Flatten(tips_in)

\* The identity signature of a lead: (symbol, target_price) when the symbol
\* is present, else (company_name, target_price)
Signature(tip) ==
    IF TruthyStr(DictGet(tip, "symbol", None))
    THEN <<DictGet(tip, "symbol", None), DictGet(tip, "target_price", None)>>
    ELSE <<DictGet(tip, "company_name", None), DictGet(tip, "target_price", None)>>

\* The positions of the leads of one signature
Colliding(tips, sig) == { i \in 1..Len(tips) : Signature(tips[i]) = sig }

\* The first position, among those of one signature, of the highest
\* confidence
Winner(tips, sig) ==
    CHOOSE i \in Colliding(tips, sig) :
        /\ \A j \in Colliding(tips, sig) : ConfidenceOf(tips[j]) <= ConfidenceOf(tips[i])
        /\ \A j \in Colliding(tips, sig) :
               ConfidenceOf(tips[j]) = ConfidenceOf(tips[i]) => i <= j

AsSet(seq) == { seq[i] : i \in 1..Len(seq) }

----------------------------------------------------------------------------
(* C9 *)

\* C9: deduplication keeps exactly one lead for each identity signature of
\* its input: the one of the highest confidence, and on a tie the first in
\* input order; {TCS, 3500, 0.6} and {TCS, 3500, 0.9} reduce to the lead of
\* confidence 0.9 in either order.
C9_KeepsHighestFirst ==
    deduplicated_tips # None =>
        LET kept == Val(deduplicated_tips)
        IN /\ \A i \in 1..Len(all_tips) :
                  LET sig == Signature(all_tips[i])
                  IN /\ Cardinality(Colliding(kept, sig)) = 1
                     /\ all_tips[Winner(all_tips, sig)] \in AsSet(kept)
           /\ \A j \in 1..Len(kept) :
                  kept[j] = all_tips[Winner(all_tips, Signature(kept[j]))]
           /\ (all_tips \in {<<Tip.tcs60, Tip.tcs90>>, <<Tip.tcs90, Tip.tcs60>>}
                  => kept = <<Tip.tcs90>>)

\* A lead of confidence 0.6 was replaced by a later one of 0.9 with its
\* signature, and a third one that ties at 0.9 did not replace it
C9_Witness ==
    /\ all_tips = <<Tip.tcs60, Tip.tcs90, Tip.tcs90b>>
    /\ deduplicated_tips = Some(<<Tip.tcs90>>)

----------------------------------------------------------------------------
(* C10 *)

\* C10: deduplication is idempotent: deduplicate_stock_tips and
\* consolidate_findings, applied to their own output, return the same set of
\* leads.
C10_Idempotent ==
    /\ deduplicated_again # None =>
           AsSet(Val(deduplicated_again)) = AsSet(Val(deduplicated_tips))
    /\ sorted_again # None =>
           AsSet(Val(sorted_again)) = AsSet(Val(sorted_tips))

\* Both functions were applied to an output in which a duplicate had been
\* removed and two leads remain
C10_Witness ==
    /\ deduplicated_again # None
    /\ sorted_again # None
    /\ Len(all_tips) = 3
    /\ Len(Val(deduplicated_tips)) = 2
    /\ Len(Val(sorted_again)) = 2
    /\ ~tips_in[1].is_list

----------------------------------------------------------------------------
(* C11 *)

\* growth_percent, a missing value counted as 0
GrowthOrZero(tip) ==
    LET growth == DictGet(tip, "growth_percent", None)
    IN IF growth = None THEN 0 ELSE Val(growth)

\* C11: the list consolidate_findings returns is sorted descending by the
\* pair (confidence, growth_percent or 0): of two adjacent leads a before b,
\* confidence(a) > confidence(b), or the confidences are equal and
\* growth(a) >= growth(b).
C11_SortedByConfidenceThenGrowth ==
    sorted_tips # None =>
        \A i \in 1..(Len(Val(sorted_tips)) - 1) :
            LET a == Val(sorted_tips)[i]
                b == Val(sorted_tips)[i + 1]
            IN \/ ConfidenceOf(a) > ConfidenceOf(b)
               \/ ConfidenceOf(a) = ConfidenceOf(b) /\ GrowthOrZero(a) >= GrowthOrZero(b)

----------------------------------------------------------------------------
(* C12 *)

\* The orders a list can be handed over in
PermutationsOf(seq) ==
    { [i \in 1..Len(seq) |-> seq[order[i]]] :
        order \in { f \in [1..Len(seq) -> 1..Len(seq)] :
                      \A i, j \in 1..Len(seq) : f[i] = f[j] => i = j } }

\* C12: consolidate_findings returns the same sequence of leads for every
\* order of its input lists and of the leads inside them.
C12_OrderIndependent ==
    sorted_tips # None =>
        /\ \A other \in PermutationsOf(tips_in) :
               consolidate_findings(other) = Val(sorted_tips)
        /\ \A other \in PermutationsOf(all_tips) :
               consolidate_findings(<<ListOf(other)>>) = Val(sorted_tips)

----------------------------------------------------------------------------
(* C13 *)

\* The paths of scrape_website on which the source has failed
FailedPaths == {"no scraper", "no url", "fetch failed", "adapter raised"}

\* C13: a run never aborts because one source failed: whatever the outcome
\* of each source (fetch failure, missing scraper or URL, exception inside the
\* adapter), run_scrapers processes every requested source and completes, its
\* results hold an entry for every requested source, and the entry of a source
\* that failed is the empty list.
C13_RunCompletes ==
    /\ [](run_pc # "aborted")
    /\ [](\A i \in 1..Len(sources) :
            (i < source_index \/ run_pc = "returned") => sources[i] \in DOMAIN results)
    /\ [](\A name \in DOMAIN results :
            results[name].why \in FailedPaths => results[name].stock_tips = <<>>)
    /\ <>(run_pc \in {"idle", "returned"})

\* A run of all sources has returned: the fetch of the first failed, the
\* adapter of the second raised, and the two after them gave leads
C13_Witness ==
    /\ run_pc = "returned"
    /\ sources = TARGET_SOURCES
    /\ results[sources[1]].why = "fetch failed"
    /\ results[sources[2]].why = "adapter raised"
    /\ results[sources[3]].stock_tips # <<>>
    /\ results[sources[4]].stock_tips # <<>>
    /\ combined # Some(<<>>)

----------------------------------------------------------------------------
(* C14 *)

\* C14: when fetches run concurrently in the worker pool, the fetches of
\* different sources use independent sessions: no two tasks that are fetching
\* at the same time use the same session object.
C14_IndependentSessions ==
    \A i, j \in 1..Len(futures) :
        (i # j /\ futures[i].state = "fetching" /\ futures[j].state = "fetching")
            => futures[i].session # futures[j].session

----------------------------------------------------------------------------
(* C15 *)

\* The place of the task of a URL in the order of completion (0: not yet done)
CompletedAt(task_url) ==
    LET at == { k \in 1..Len(completed) : futures[completed[k]].url = task_url }
    IN IF at = {} THEN 0 ELSE CHOOSE k \in at : TRUE

\* C15: in the concurrent path the results are appended to the combined list
\* in the order the tasks complete, not in the order they were submitted: of
\* two leads of the combined list, the one that stands first comes from the
\* task that finished first.
C15_CollectedInCompletionOrder ==
    \A p, q \in 1..Len(all_stock_tips) :
        p < q => CompletedAt(all_stock_tips[p].source) <= CompletedAt(all_stock_tips[q].source)

----------------------------------------------------------------------------
(* C16, C17 *)

\* The leads the card path of an adapter builds from a page, in page order
FromCards(source_name, soup) ==
    CASE source_name = "axis_direct" -> scrape_axis_direct(soup)
      [] source_name = "icici_direct" -> <<>>
      [] source_name = "5paisa" -> IF FivepaisaTables(soup.tables) = <<>>
                                   THEN FivepaisaCards(soup.cards) ELSE <<>>
      [] source_name = "moneycontrol" -> MoneycontrolCards(soup.cards)

\* The leads the table path of an adapter builds from a page
FromTables(source_name, soup) ==
    CASE source_name = "axis_direct" -> <<>>
      [] source_name = "icici_direct" -> scrape_icici_direct(soup)
      [] source_name = "5paisa" -> FivepaisaTables(soup.tables)
      [] source_name = "moneycontrol" -> MoneycontrolTables(soup.tables)

\* The leads of one page before the adapter removes duplicates
Built == AsSet(FromCards(source, page)) \cup AsSet(FromTables(source, page))

\* The composite key: (symbol, target_price), or (company_name, target_price)
\* when the symbol is absent
PageKey(lead) ==
    IF TruthyStr(lead.symbol) THEN <<"symbol", lead.symbol, lead.target_price>>
    ELSE <<"company_name", lead.company_name, lead.target_price>>

\* C16: each adapter deduplicates the leads of one page by the composite key
\* and returns, for each key, the entry with the highest confidence: every key
\* built is returned exactly once (so two leads with the same symbol and
\* different targets are both kept), with the highest confidence built for it.
C16_OnePerKeyHighestConfidence ==
    stock_tips # None =>
        /\ \A lead \in Built :
               \E i \in 1..Len(Returned) :
                   /\ PageKey(Returned[i]) = PageKey(lead)
                   /\ Returned[i].confidence >= lead.confidence
        /\ \A i, j \in 1..Len(Returned) :
               PageKey(Returned[i]) = PageKey(Returned[j]) => i = j

\* C17: the looser path runs only when the preferred one gave nothing: for no
\* page do both the card path and the table path contribute leads to the
\* returned list.
C17_OnePathOnly ==
    stock_tips # None =>
        ~ \E i, j \in 1..Len(Returned) :
            /\ Returned[i] \in AsSet(FromCards(source, page)) \ AsSet(FromTables(source, page))
            /\ Returned[j] \in AsSet(FromTables(source, page)) \ AsSet(FromCards(source, page))

----------------------------------------------------------------------------
(* C18 *)

\* The page without the fragments whose parsing raises
WithoutRaising(soup) ==
    Soup(SelectSeq(soup.cards, LAMBDA f : ~f.raises),
         [t \in 1..Len(soup.tables) |->
             [soup.tables[t] EXCEPT !.rows = SelectSeq(soup.tables[t].rows, LAMBDA f : ~f.raises)]])

\* C18: an exception raised while parsing one row or card skips only that row
\* or card: the adapter returns what it returns for the page without the
\* raising fragments, later rows of the same table included.
C18_OnlyTheFragmentSkipped ==
    stock_tips # None => Returned = scraper_func(source, WithoutRaising(page))

----------------------------------------------------------------------------
(* C19 *)

\* C19: in every scoring path, for every combination of present and absent
\* symbol, company name, entry price, target price, stop loss and growth, the
\* confidence assigned lies in [0.0, 1.0] (0..100 hundredths).
C19_ConfidenceInUnitInterval ==
    scored # None => (0 <= Val(scored) /\ Val(scored) <= 100)

\* A 5paisa row with symbol, both prices, a stop loss and a growth in the band
\* was scored: 0.9 + 0.15 was cut to 1.0
C19_Witness ==
    /\ scoring_path = "5paisa table"
    /\ TruthyNum(found.stop_loss)
    /\ is_target_growth_range(GrowthOf(found.entry_price, found.target_price))
    /\ scored = Some(100)

----------------------------------------------------------------------------
(* C20 *)

\* What was found, less one corroborating signal: the stop loss, the symbol,
\* or (when both prices were found) one or both of the prices
Lesser(f) ==
    ({ [f EXCEPT !.stop_loss = None], [f EXCEPT !.symbol = None] }
     \cup (IF TruthyNum(f.entry_price) /\ TruthyNum(f.target_price)
           THEN { [f EXCEPT !.entry_price = e, !.target_price = t] :
                    e \in {None, f.entry_price}, t \in {None, f.target_price} }
           ELSE {}))
    \ {f}

\* C20: scoring is monotone in the corroborating signals: in every scoring
\* path, what was found scores at least as high as the same without its stop
\* loss, without its symbol, or without both of its prices.
C20_Monotone ==
    scored # None =>
        \A less \in Lesser(found) : ScoreOf(scoring_path, less) <= Val(scored)

\* A MoneyControl card with a stop loss and both prices was scored, and
\* scores higher than the same card without the stop loss and than the same
\* card without its prices
C20_Witness ==
    /\ scoring_path = "moneycontrol card"
    /\ scored # None
    /\ TruthyNum(found.stop_loss)
    /\ TruthyNum(found.entry_price) /\ TruthyNum(found.target_price)
    /\ ScoreOf(scoring_path, [found EXCEPT !.stop_loss = None]) < Val(scored)
    /\ ScoreOf(scoring_path, [found EXCEPT !.entry_price = None, !.target_price = None])
           <= Val(scored)

----------------------------------------------------------------------------
(* C21 *)

\* The score of a path before its bonus: the confidence block run with no
\* growth
PreBonus(path, f) == PathConfidence(path, f, None)

\* C21: in every adapter's scoring, a growth_percent in the band 7 to 15
\* (bounds included) makes the final confidence the pre-bonus score plus 0.15,
\* capped at 1.0; outside the band, or with no growth, the final confidence is
\* the pre-bonus score.
C21_BonusIsFifteen ==
    (scored # None /\ scoring_path # "extract_stock_details") =>
        LET growth_percent == GrowthOf(found.entry_price, found.target_price)
            before == PreBonus(scoring_path, found)
        IN IF is_target_growth_range(growth_percent)
           THEN Val(scored) = Min(before + 15, 100)
           ELSE Val(scored) = before

----------------------------------------------------------------------------
(* C22, C23 *)

\* How often a lead stands in a list
Count(seq, x) == Cardinality({ i \in 1..Len(seq) : seq[i] = x })

\* A list is in descending order of confidence
Descending(seq) ==
    \A i \in 1..(Len(seq) - 1) : ConfidenceOf(seq[i]) >= ConfidenceOf(seq[i + 1])

\* C22: the quality view holds exactly the leads of its input (the
\* deduplicated set) whose confidence, 0 when missing, is at or above the
\* threshold (default 0.7), in descending order of confidence, and no lead
\* that is not in its input.
C22_QualityView ==
    quality_view # None =>
        /\ \A tip \in AsSet(view_input) \cup AsSet(Val(quality_view)) :
               Count(Val(quality_view), tip) =
                   IF ConfidenceOf(tip) >= view_args.min_confidence
                   THEN Count(view_input, tip) ELSE 0
        /\ Descending(Val(quality_view))

\* The default view was made of a list that holds a lead at exactly 0.7, which
\* is in the view, and a lead below it (one with no confidence), which is not
C22_Witness ==
    /\ quality_view # None
    /\ view_args.min_confidence = 70
    /\ \E tip \in AsSet(Val(quality_view)) : ConfidenceOf(tip) = 70
    /\ \E tip \in AsSet(view_input) :
          "confidence" \notin DOMAIN tip /\ tip \notin AsSet(Val(quality_view))

----------------------------------------------------------------------------
(* C24, C25 *)

\* The order of the patterns as the claim has it: exchange notation, labelled
\* prefix, bare token, token with digits
NotationFirst == <<"nse", "bse", "named", "bare", "digits">>

\* C24: symbol extraction tries explicit NSE:SYM/BSE:SYM notation first, then
\* the labelled prefix, then the bare uppercase token, then the alphanumeric
\* variant, and the first pattern with a match that is not stop-listed
\* decides: a text that holds an earlier bare uppercase token and an
\* 'NSE:SYM' notation yields the symbol of the notation.
C24_NotationFirst ==
    (details # None /\ Without(ExchangeSymbols(clean_text(raw_text), Word.NSE),
                               SymbolStopList) # <<>>) =>
        /\ Val(details).symbol = FirstSymbol(NotationFirst, clean_text(raw_text))
        /\ Val(details).symbol =
               Some(Without(ExchangeSymbols(clean_text(raw_text), Word.NSE), SymbolStopList)[1])

\* "Buy INFY, target 1800, CMP 1600", and the same with other label cases
ScenarioB ==
    { <<Word.Buy, SP, Word.INFY>> \o target \o entry :
        target \in {<<<<",">>, SP, Word.target, SP, Word.n1800>>,
                    <<<<",">>, SP, Word.Target, <<":">>, SP, Word.n1800>>},
        entry \in {<<<<",">>, SP, Word.CMP, SP, Word.n1600>>,
                   <<<<",">>, SP, Word.cmp, SP, Word.n1600>>} }

\* C25: labelled prices are recognised whatever the case of the label: the
\* text "Buy INFY, target 1800, CMP 1600" yields recommendation buy, symbol
\* INFY, entry_price 1600.0, target_price 1800.0 and growth_percent 12.5, and
\* the confidence is raised by the growth-band bonus.
C25_ScenarioB ==
    (details # None /\ raw_text \in ScenarioB) =>
        /\ Val(details).recommendation_type = "buy"
        /\ Val(details).symbol = Some(Word.INFY)
        /\ Val(details).entry_price = Some(1600)
        /\ Val(details).target_price = Some(1800)
        /\ Val(details).growth_percent = Some(1250)
        /\ Val(details).confidence = ExtractConfidence(TRUE, FALSE, TRUE, None) + 15

----------------------------------------------------------------------------
(* C26, C27 *)

\* The indices of the primary requests in the log
GetIndices == { i \in 1..Len(log) : log[i].ev \in GetEvents }

\* C26: after every failed attempt that is followed by another attempt, an
\* attempt that ended in a soft-block page or in 403/429 included, the fetch
\* sleeps the general backoff, besides the backoff of the cause, before it
\* issues the next request.
C26_GeneralBackoffBetweenAttempts ==
    \A i \in GetIndices, j \in GetIndices :
        (i < j /\ \A k \in (i + 1)..(j - 1) : k \notin GetIndices) =>
            \E k \in (i + 1)..(j - 1) : log[k].ev = "backoff_sleep"

\* The last permitted attempt has failed with 403/429 or with a soft-block page
C27_LastAttemptBlocked ==
    /\ Finished
    /\ retries_count >= 1
    /\ NumGets = retries_count
    /\ log[LastRequest].ev = "get"
    /\ \/ IsRetriedStatus(log[LastRequest].n)
       \/ log[LastRequest].n = 200 /\ IsSoftBlock(Val(response).body)

\* C27: backoff sleeps happen only between attempts: when the last permitted
\* attempt fails with 403/429 or a soft-block page, the fetch returns its
\* failure outcome without sleeping after that attempt.
C27_NoSleepAfterLastAttempt ==
    C27_LastAttemptBlocked =>
        /\ ~Val(outcome).success
        /\ \A k \in (LastRequest + 1)..Len(log) : log[k].ev \notin SleepEvents

----------------------------------------------------------------------------
(* C28 *)

WarmupEvents == {"warmup_get", "warmup_sleep", "warmup_failed"}

\* The fetch has a profile with warm-up and is past the warm-up step
C28_PastWarmup ==
    /\ pc \in {"delay", "loop", "done", "returned"}
    /\ DictGet(config, "special_handling", FALSE)
    /\ "moneycontrol.com" \in url

\* What the primary attempts alone say the outcome is
C28_OutcomeOfAttempts ==
    IF LastRequest = Len(log) /\ LastRequest > 0
    THEN IF log[LastRequest].ev = "get_raised"
         THEN [success |-> FALSE, status_code |-> None]
         ELSE [success |-> log[LastRequest].n = 200, status_code |-> Some(log[LastRequest].n)]
    ELSE [success |-> FALSE, status_code |-> None]

\* C28: for a profile with warm-up, the homepage GET is issued before the
\* inter-request delay and before the first primary request; when the
\* warm-up fails the primary request is still attempted, with the whole
\* retry loop, and the outcome depends on the primary attempts only.
C28_WarmupFirstAndNeverFatal ==
    /\ \A i \in 1..Len(log) : log[i].ev \in WarmupEvents =>
          \A j \in 1..Len(log) : log[j].ev \in GetEvents \cup SleepEvents \cup {"delay"} => i < j
    /\ C28_PastWarmup =>
          /\ log # <<>>
          /\ log[1].ev \in {"warmup_get", "warmup_failed"}
    /\ (log # <<>> /\ log[1].ev = "warmup_failed") =>
          /\ pc \in {"delay", "loop", "done", "returned"}
          /\ raised = None
          /\ pc = "loop" => attempt = NumGets /\ attempt <= retries_count
          /\ Finished =>
                /\ outcome # None
                /\ NumGets >= 1 \/ retries_count = 0
                /\ Val(outcome).success = C28_OutcomeOfAttempts.success
                /\ Val(outcome).status_code = C28_OutcomeOfAttempts.status_code

\* The warm-up failed, the first primary request was blocked, the second
\* brought the page
C28_Witness ==
    /\ pc = "done"
    /\ log # <<>>
    /\ log[1].ev = "warmup_failed"
    /\ NumGets = 2
    /\ Val(outcome).success

----------------------------------------------------------------------------
(* C29 *)

\* C29: no call of fetch_with_anti_blocking changes site_configs or
\* default_config: after any sequence of fetches (the insertion of the user
\* agent and the rewriting of the Referer by the warm-up included) every
\* profile has the headers, delays, retry count and warm-up flag it began
\* with.
C29_ProfilesImmutable ==
    /\ site_configs = InitSiteConfigs
    /\ default_config = InitDefaultConfig
    /\ \A u \in URLs :
          _get_site_config(u) =
              IF FirstMatch(u, 1) = None THEN InitDefaultConfig
              ELSE DictUpdate(InitDefaultConfig, InitSiteConfigs[Val(FirstMatch(u, 1))])

\* A fetch with warm-up has ended: its headers carry a user agent and the
\* rewritten Referer, the profile still has the Referer it began with
C29_Witness ==
    /\ pc = "returned"
    /\ "User-Agent" \in DOMAIN headers
    /\ DictGet(headers, "Referer", "") = "https://www.moneycontrol.com/"
    /\ site_configs["moneycontrol.com"]["headers"]["Referer"] = "https://www.google.com/"
    /\ "User-Agent" \notin DOMAIN site_configs["moneycontrol.com"]["headers"]

----------------------------------------------------------------------------
(* C30 *)

\* The identity signature with what it is made of: the symbol and the target
\* price, or, for a lead without symbol, the company name and the target price
KeyedSignature(tip) ==
    IF TruthyStr(DictGet(tip, "symbol", None))
    THEN <<"symbol", DictGet(tip, "symbol", None), DictGet(tip, "target_price", None)>>
    ELSE <<"company_name", DictGet(tip, "company_name", None),
           DictGet(tip, "target_price", None)>>

\* C30: deduplicate_stock_tips merges two leads only when both carry the same
\* symbol and target_price, or both are symbol-less with the same
\* company_name and target_price: a lead keyed by its symbol is never merged
\* with a symbol-less lead keyed by its company_name (each signature of the
\* input is still there in the output), and every output lead is one of the
\* input leads, unchanged.
C30_MergesSameSignatureOnly ==
    deduplicated_tips # None =>
        /\ AsSet(Val(deduplicated_tips)) \subseteq AsSet(all_tips)
        /\ \A i \in 1..Len(all_tips) :
               \E kept \in AsSet(Val(deduplicated_tips)) :
                   KeyedSignature(kept) = KeyedSignature(all_tips[i])

====
